---- MODULE Spec2Model ----
(***************************************************************************)
(* A model of the retrieval-and-theme-synthesis pipeline of the backend:   *)
(*   - services/theme_identification.py: cluster_snippets and              *)
(*     identify_and_summarize_themes;                                      *)
(*   - services/llm_clients.py: generate_theme_summary and                 *)
(*     extract_answer_from_chunk (the part that decides what the callers   *)
(*     see: a raised error, a fallback value or the LLM's parsed reply);   *)
(*   - api/v1/query.py and api/v1/theme.py: the snippet extraction stage;  *)
(*   - services/retrieval.py: retrieve_top_k_chunks;                       *)
(*   - services/embedding_index.py: index_chunks_in_vector_store,          *)
(*     ensure_collection_exists and deterministic_uuid;                    *)
(*   - api/v1/docs.py: delete_document;                                    *)
(*   - services/ingestion.py: chunk_text_into_paragraphs.                  *)
(*                                                                         *)
(* Python lists are sequences; list indices are kept 0-based as in the     *)
(* source (the element with index i of a list s is s[i + 1]).  External    *)
(* calls (embedding provider, sklearn's AgglomerativeClustering, the LLM)  *)
(* are nondeterministic choices over the outcomes the callers can observe. *)
(***************************************************************************)
EXTENDS Integers, Sequences, FiniteSets, TLC

\* ------------------------------------------------------------ bounds
\* Longest snippet list handed to identify_and_summarize_themes.
MaxSnippets == 15
\* Lists up to this length are enumerated exhaustively (every text, every
\* embedding failure, every labelling); longer lists vary only at their two
\* ends and are labelled round-robin.
MaxFree == 6
\* Largest n_clusters argument of a direct call of cluster_snippets.
MaxNClusters == 4
\* Most documents of one query or theme request.
MaxDocs == 2
\* Most chunks retrieved over all documents of one request.
MaxTasks == 3
\* Largest top_k of a direct call of retrieve_top_k_chunks.
MaxHits == 2
\* Longest chunk list and largest batch_size handed to
\* index_chunks_in_vector_store.
MaxChunks == 4
MaxBatch == 3
\* Most pieces a doc_id handed to deterministic_uuid is put together from.
MaxIdTokens == 2
\* Longest chunk list two writers index into one store, and most direct
\* calls of ensure_collection_exists next to them.
MaxStoreChunks == 3
MaxEnsureCalls == 2
\* Most words of a text given to chunk_text_into_paragraphs.
MaxWords == 900

\* ------------------------------------------------- program constants
\* theme_identification.py:85  n_clusters = min(max(1, n_snip // 3), 4)
SNIPPETS_PER_CLUSTER == 3
MAX_CLUSTERS == 4
\* query.py:59, theme.py:57  top_k=req.top_k_per_doc or 3
DEFAULT_TOP_K == 3
\* embedding_index.py:15
VECTOR_DIMENSION == 768
\* ingestion.py:16, 17
MAX_WORDS_PER_CHUNK == 300
WORD_OVERLAP == 50

VARIABLES
    entry,          \* the function under call: "cluster" or "identify"
    snippets,       \* the snippets argument
    n_clusters,     \* the n_clusters argument of cluster_snippets
    pc,             \* position in the function under call
    embed_calls,    \* indices get_embedding_vector was called for, in order
    embed_failed,   \* indices whose get_embedding_vector call raised
    fit_calls,      \* the n_clusters of every AgglomerativeClustering run
    fit_raised,     \* whether the clustering run raised
    clusters_map,   \* the mapping returned by cluster_snippets
    label_iter,     \* labels the summarisation loop has still to visit
    summ_calls,     \* the generate_theme_summary calls made, in order
    themes,         \* the list identify_and_summarize_themes builds
    path,           \* the endpoint serving the request: "query" or "theme"
    config,         \* the provider configuration the process runs with
    doc_ids,        \* the resolved doc_ids of the request
    hits,           \* per document, how many chunks retrieval returns
    doc_pc,         \* per document, the position of its coroutine
    slots,          \* per document, the result slots of its gather
    overtaken,      \* per document, whether a task ended before an earlier one
    writes,         \* which concurrent unit has written to which object
    doc_result,     \* per document, what process_single_doc returned
    all_snippets,   \* the theme path's shared snippet pool
    appends,        \* which coroutine appended how many snippets to it, in order
    stage,          \* the position of the endpoint handler
    response,       \* the handler's outcome
    rt_pc,          \* position in retrieve_top_k_chunks
    rt_doc_id,      \* its doc_id argument
    top_k,          \* its top_k argument
    query_embedding,\* the outcome of its embedding step
    search_calls,   \* the qdrant_client.search calls made, in order
    search_result,  \* the hits of the successful search
    rt_return,      \* what retrieve_top_k_chunks returned
    ix_pc,          \* position in index_chunks_in_vector_store
    chunks,         \* its chunks argument
    batch_size,     \* its batch_size argument
    idx,            \* the loop index (chunks[idx] is chunks[idx + 1] here)
    vectors,        \* what get_embedding_vector did for each chunk so far
    buffer_points,  \* the points waiting for the next upsert
    upsert_calls,   \* the client.upsert calls made, in order
    ix_return,      \* how index_chunks_in_vector_store ended
    triples,        \* the arguments of two deterministic_uuid calls
    uuids,          \* per call, the key it hashed and the id it returned
    collection,     \* the store: whether "document_chunks" exists, its points
    writers,        \* per writer, its position, loop index and buffer
    all_ok,         \* no embedding or store call of a writer has failed
    ensure_calls,   \* direct calls of ensure_collection_exists that returned
    backend,        \* settings.DEFAULT_LLM_BACKEND
    groq_client,    \* the module's groq_client: "Groq" or "None"
    llm_reply,      \* what the provider call of the extraction did
    ex_pc,          \* position in extract_answer_from_chunk
    ex_return,      \* how extract_answer_from_chunk ended
    documents,      \* the doc_ids with a row in the documents table
    folders,        \* the doc_ids with an upload folder on disk
    indexed,        \* the doc_ids with points in the vector index
    deleters,       \* per delete_document call, its position and outcome
    total_words,    \* len(words) of the text given to the chunker
    ck_pc,          \* position in chunk_text_into_paragraphs
    start,          \* its loop variable start
    para_chunks     \* the chunks it has built, as word ranges

themeVars == <<entry, snippets, n_clusters, pc, embed_calls, embed_failed,
               fit_calls, fit_raised, clusters_map, label_iter, summ_calls,
               themes>>
extractVars == <<path, config, doc_ids, hits, doc_pc, slots, overtaken,
                 writes, doc_result, all_snippets, appends, stage,
                 response>>
retrVars == <<rt_pc, rt_doc_id, top_k, query_embedding, search_calls,
              search_result, rt_return>>
indexVars == <<ix_pc, chunks, batch_size, idx, vectors, buffer_points,
               upsert_calls, ix_return>>
uuidVars == <<triples, uuids>>
storeVars == <<collection, writers, all_ok, ensure_calls>>
llmVars == <<backend, groq_client, llm_reply, ex_pc, ex_return>>
deleteVars == <<documents, folders, indexed, deleters>>
chunkerVars == <<total_words, ck_pc, start, para_chunks>>
tailVars == <<llmVars, deleteVars, chunkerVars>>
lateVars == <<storeVars, tailVars>>
serviceVars == <<retrVars, indexVars, uuidVars, lateVars>>
vars == <<themeVars, extractVars, serviceVars>>

\* ----------------------------------------------------------- helpers
Min(a, b) == IF a <= b THEN a ELSE b
Max(a, b) == IF a >= b THEN a ELSE b
Range(s) == {s[i] : i \in DOMAIN s}

\* The subsequence of s at the positions satisfying keep, order preserved.
RECURSIVE SubSeqAt(_, _, _)
SubSeqAt(s, keep, from) ==
    IF from > Len(s) THEN <<>>
    ELSE IF from \in keep THEN <<s[from]>> \o SubSeqAt(s, keep, from + 1)
    ELSE SubSeqAt(s, keep, from + 1)

\* sorted(...) of a finite set of integers.
RECURSIVE Sorted(_)
Sorted(S) ==
    IF S = {} THEN <<>>
    ELSE LET lo == CHOOSE x \in S : \A y \in S : x <= y
         IN <<lo>> \o Sorted(S \ {lo})

\* ------------------------------------------------------------ inputs
\* Snippet texts: empty, whitespace-only, and a text with content.
Texts == {"", " ", "a"}

\* str.strip() on the texts above.
Strip(t) == IF t = " " THEN "" ELSE t

\* The snippet at index i: its citation is distinct per index ("c0", "c1", ...).
Snippet(t, i) == [text |-> t, citation |-> <<"c", i>>]

TextChoices(n) ==
    IF n <= MaxFree
    THEN [1..n -> Texts]
    ELSE {[p \in 1..n |-> IF p = 1 THEN a ELSE IF p = n THEN b ELSE "a"] :
            a \in Texts, b \in Texts}

ListsOfLen(n) == {[p \in 1..n |-> Snippet(f[p], p - 1)] : f \in TextChoices(n)}

ThemeInputs == UNION {ListsOfLen(n) : n \in 0..MaxSnippets}
ClusterInputs == UNION {ListsOfLen(n) : n \in 0..MaxFree}
NClusterArgs == 0..MaxNClusters

\* ------------------------------------------ theme_identification.py
\* NonBlankIndices with the .strip() forgotten.
NonBlankIndices_NoStrip(snips) ==
    SubSeqAt([p \in 1..Len(snips) |-> p - 1],
             {p \in 1..Len(snips) : snips[p].text # ""}, 1)

\* Indices whose stripped text is non-empty: the indices that reach
\* get_embedding_vector, in loop order.
NonBlankIndices(snips) ==
    SubSeqAt([p \in 1..Len(snips) |-> p - 1],
             {p \in 1..Len(snips) : Strip(snips[p].text) # ""}, 1)

\* Which embedding calls may raise.
EmbedFailChoices(snips) ==
    SUBSET {i \in Range(NonBlankIndices(snips)) :
              Len(snips) <= MaxFree \/ i = 0 \/ i = Len(snips) - 1}

\* valid_indices after the embedding loop.
ValidIndices(snips, fails) ==
    LET nb == NonBlankIndices(snips)
    IN SubSeqAt(nb, {p \in 1..Len(nb) : nb[p] \notin fails}, 1)

\* What fit_predict may do for m samples and k clusters: raise, or return one
\* label in 0..k-1 per sample with every label used.
Labellings(m, k) ==
    IF m <= MaxFree
    THEN {f \in [1..m -> 0..(k - 1)] : Range(f) = 0..(k - 1)}
    ELSE {[j \in 1..m |-> (j - 1 + r) % k] : r \in 0..(k - 1)}

FitOutcomes(m, k) ==
    {[raised |-> TRUE, labels |-> <<>>]}
        \cup {[raised |-> FALSE, labels |-> f] : f \in Labellings(m, k)}

\* GroupByLabel appending emb_idx instead of valid_indices[emb_idx].
GroupByLabel_EmbIdx(valid, labels) ==
    [l \in Range(labels) |->
        SubSeqAt([j \in 1..Len(valid) |-> j - 1],
                 {j \in 1..Len(valid) : labels[j] = l}, 1)]

\* The clusters dict built from the labels: label -> original indices, in
\* embedding order.
GroupByLabel(valid, labels) ==
    [l \in Range(labels) |->
        SubSeqAt(valid, {j \in 1..Len(valid) : labels[j] = l}, 1)]

\* ClusterK without the min against the number of embedded snippets.
ClusterK_NoMin(nc, m) == nc

\* k of cluster_snippets.
ClusterK(nc, m) == Min(nc, m)

\* Whether cluster_snippets reaches the clustering algorithm.
RunsClustering(snips, nc, fails) ==
    LET m == Len(ValidIndices(snips, fails))
    IN m > 0 /\ ClusterK(nc, m) > 1

\* ClusterSnippets without the `if not valid_embeddings: return {}` guard.
ClusterSnippets_NoEmptyCheck(snips, nc, fails, fit) ==
    LET valid == ValidIndices(snips, fails)
        k == ClusterK(nc, Len(valid))
    IN IF k <= 1 THEN (0 :> valid)
       ELSE IF fit.raised THEN (0 :> valid)
       ELSE GroupByLabel(valid, fit.labels)

\* ClusterSnippets giving up with an empty mapping when the clustering raises.
ClusterSnippets_RaiseReturnsEmpty(snips, nc, fails, fit) ==
    LET valid == ValidIndices(snips, fails)
        k == ClusterK(nc, Len(valid))
    IN IF Len(valid) = 0 THEN <<>>
       ELSE IF k <= 1 THEN (0 :> valid)
       ELSE IF fit.raised THEN <<>>
       ELSE GroupByLabel(valid, fit.labels)

\* The value cluster_snippets returns, given which embedding calls raise and
\* what the clustering run does.
ClusterSnippets(snips, nc, fails, fit) ==
    LET valid == ValidIndices(snips, fails)
        m == Len(valid)
        k == ClusterK(nc, m)
    IN IF m = 0 THEN <<>>
       ELSE IF k <= 1 THEN (0 :> valid)
       ELSE IF fit.raised THEN (0 :> valid)
       ELSE GroupByLabel(valid, fit.labels)

\* The clustering outcomes cluster_snippets can meet on this input.
FitChoices(snips, nc, fails) ==
    IF RunsClustering(snips, nc, fails)
    THEN LET m == Len(ValidIndices(snips, fails))
         IN FitOutcomes(m, ClusterK(nc, m))
    ELSE {[raised |-> FALSE, labels |-> <<>>]}

\* NClustersFor without the upper clamp.
NClustersFor_NoCap(n) == Max(1, n \div SNIPPETS_PER_CLUSTER)

\* n_clusters = min(max(1, n_snip // 3), 4)
NClustersFor(n) == Min(Max(1, n \div SNIPPETS_PER_CLUSTER), MAX_CLUSTERS)

\* f"Theme {theme_id}"
ThemeName(theme_id) == <<"Theme", theme_id>>

\* [s.get("citation", "") for s in member_snippets]
Citations(members) == [p \in 1..Len(members) |-> members[p].citation]

\* [snippets[i] for i in member_indices]
MemberSnippets(snips, indices) ==
    [p \in 1..Len(indices) |-> snips[indices[p] + 1]]

\* LabelOrder visiting the labels in descending order.
LabelOrder_Descending(map) ==
    LET asc == Sorted(DOMAIN map)
    IN [p \in 1..Len(asc) |-> asc[Len(asc) + 1 - p]]

\* The order in which the summarisation loop visits the labels.
LabelOrder(map) == Sorted(DOMAIN map)

\* FallbackTheme naming the theme after the label instead of label + 1.
FallbackTheme_LabelName(theme_id, members) ==
    [theme_name |-> ThemeName(theme_id - 1), summary |-> "",
     citations |-> Citations(members)]

\* The theme identify_and_summarize_themes substitutes when the summarizer
\* raises, and the one it returns when no snippet could be embedded.
FallbackTheme(theme_id, members) ==
    [theme_name |-> ThemeName(theme_id), summary |-> "",
     citations |-> Citations(members)]

\* ------------------------------------------------- llm_clients.py
\* What one generate_theme_summary call can meet:
\*   "raise"    the call raises (unknown backend, no Groq client, a parsed
\*              reply that is not a JSON object on the Gemini path);
\*   "unparsed" the LLM call failed or its reply is not JSON: the function
\*              returns its own fallback;
\*   "full"     the reply is an object with theme_name, summary and the
\*              citations it was shown;
\*   "nocit"    the reply is an object without a "citations" key.
SummaryReplies == {"raise", "unparsed", "full", "nocit"}

GenerateThemeSummary(members, theme_id, reply) ==
    IF reply = "raise"
    THEN [raised |-> TRUE, value |-> <<>>]
    ELSE IF reply = "unparsed"
    THEN [raised |-> FALSE,
          value |-> [theme_name |-> ThemeName(theme_id), summary |-> "",
                     citations |-> Citations(members)]]
    ELSE [raised |-> FALSE,
          value |-> [theme_name |-> <<"LLM label">>,
                     summary |-> "LLM synthesis",
                     citations |-> IF reply = "full" THEN Citations(members)
                                   ELSE <<>>]]

\* -------------------------------------------------------------- state
\* No request is being served.
ExtractIdle ==
    /\ path = "none"
    /\ config = "ok"
    /\ doc_ids = <<>>
    /\ hits = <<>>
    /\ doc_pc = <<>>
    /\ slots = <<>>
    /\ overtaken = <<>>
    /\ writes = {}
    /\ doc_result = <<>>
    /\ all_snippets = <<>>
    /\ appends = <<>>
    /\ stage = "idle"
    /\ response = [kind |-> "none"]

\* No embedding value: the embedding call raised or was not made.
NoVector == [shape |-> "none", rows |-> 0, len |-> 0]

\* retrieve_top_k_chunks is not being called.
RetrieveIdle ==
    /\ rt_pc = "idle"
    /\ rt_doc_id = ""
    /\ top_k = 0
    /\ query_embedding = [kind |-> "none", value |-> NoVector]
    /\ search_calls = <<>>
    /\ search_result = <<>>
    /\ rt_return = [kind |-> "none", chunks |-> <<>>]

\* index_chunks_in_vector_store is not being called.
IndexIdle ==
    /\ ix_pc = "idle"
    /\ chunks = <<>>
    /\ batch_size = 0
    /\ idx = 0
    /\ vectors = <<>>
    /\ buffer_points = <<>>
    /\ upsert_calls = <<>>
    /\ ix_return = "none"

\* deterministic_uuid is not being called.
UuidIdle ==
    /\ triples = <<>>
    /\ uuids = <<>>

\* Neither cluster_snippets nor identify_and_summarize_themes is being called.
ThemeIdle ==
    /\ snippets = <<>>
    /\ n_clusters = 0
    /\ pc = "idle"
    /\ embed_calls = <<>>
    /\ embed_failed = {}
    /\ fit_calls = <<>>
    /\ fit_raised = FALSE
    /\ clusters_map = <<>>
    /\ label_iter = <<>>
    /\ summ_calls = <<>>
    /\ themes = <<>>

\* No store is looked at.
StoreIdle ==
    /\ collection = [exists |-> FALSE, created |-> 0, points |-> {}]
    /\ writers = <<>>
    /\ all_ok = TRUE
    /\ ensure_calls = 0

\* No extraction is looked at.
LlmIdle ==
    /\ backend = "groq"
    /\ groq_client = "none"
    /\ llm_reply = [kind |-> "none"]
    /\ ex_pc = "idle"
    /\ ex_return = [kind |-> "none"]

\* No deletion is looked at.
DeleteIdle ==
    /\ documents = {}
    /\ folders = {}
    /\ indexed = {}
    /\ deleters = <<>>

\* No chunking is looked at.
ChunkerIdle ==
    /\ total_words = 0
    /\ ck_pc = "idle"
    /\ start = 0
    /\ para_chunks = <<>>

TailIdle == LlmIdle /\ DeleteIdle /\ ChunkerIdle

LateIdle == StoreIdle /\ TailIdle

ServicesIdle == RetrieveIdle /\ IndexIdle /\ UuidIdle /\ LateIdle

InitCommon ==
    /\ ExtractIdle
    /\ ServicesIdle
    /\ pc = "start"
    /\ embed_calls = <<>>
    /\ embed_failed = {}
    /\ fit_calls = <<>>
    /\ fit_raised = FALSE
    /\ clusters_map = <<>>
    /\ label_iter = <<>>
    /\ summ_calls = <<>>
    /\ themes = <<>>

\* A direct call cluster_snippets(snippets, n_clusters).
InitCluster ==
    /\ entry = "cluster"
    /\ snippets \in ClusterInputs
    /\ n_clusters \in NClusterArgs
    /\ InitCommon

\* A call identify_and_summarize_themes(snippets, question).
InitTheme ==
    /\ entry = "identify"
    /\ snippets \in ThemeInputs
    /\ n_clusters = 0
    /\ InitCommon

\* The effect of one run of cluster_snippets(snippets, nc) on the call record.
RunClusterSnippets(nc, fails, fit) ==
    /\ embed_calls' = NonBlankIndices(snippets)
    /\ embed_failed' = fails
    /\ fit_calls' = IF RunsClustering(snippets, nc, fails)
                    THEN <<ClusterK(nc, Len(ValidIndices(snippets, fails)))>>
                    ELSE <<>>
    /\ fit_raised' = (RunsClustering(snippets, nc, fails) /\ fit.raised)
    /\ clusters_map' = ClusterSnippets(snippets, nc, fails, fit)

\* cluster_snippets, called directly: it has no suspension point.
CallClusterSnippets ==
    /\ entry = "cluster"
    /\ pc = "start"
    /\ \E fails \in EmbedFailChoices(snippets) :
         \E fit \in FitChoices(snippets, n_clusters, fails) :
            RunClusterSnippets(n_clusters, fails, fit)
    /\ pc' = "returned"
    /\ UNCHANGED <<entry, snippets, n_clusters, label_iter, summ_calls, themes>>
    /\ UNCHANGED <<extractVars, serviceVars>>

\* identify_and_summarize_themes up to its first await: the empty-input
\* return, the heuristic, the cluster_snippets call and the no-cluster return.
IdentifyStart ==
    /\ entry = "identify"
    /\ pc = "start"
    /\ IF Len(snippets) = 0
       THEN /\ pc' = "done"
            /\ themes' = <<>>
            /\ UNCHANGED <<n_clusters, embed_calls, embed_failed, fit_calls,
                           fit_raised, clusters_map, label_iter>>
       ELSE /\ n_clusters' = NClustersFor(Len(snippets))
            /\ \E fails \in EmbedFailChoices(snippets) :
                 \E fit \in FitChoices(snippets, n_clusters', fails) :
                    /\ RunClusterSnippets(n_clusters', fails, fit)
                    /\ IF DOMAIN clusters_map' = {}
                       THEN /\ themes' = <<FallbackTheme(1, snippets)>>
                            /\ label_iter' = <<>>
                            /\ pc' = "done"
                       ELSE /\ themes' = <<>>
                            /\ label_iter' = LabelOrder(clusters_map')
                            /\ pc' = "summarize"
    /\ UNCHANGED <<entry, snippets, summ_calls>>
    /\ UNCHANGED <<extractVars, serviceVars>>

\* One iteration of the loop over the labels, up to its await: the member
\* snippets are gathered and generate_theme_summary is called.
SummarizeCall ==
    /\ entry = "identify"
    /\ pc = "summarize"
    /\ label_iter # <<>>
    /\ LET label == Head(label_iter)
       IN summ_calls' = Append(summ_calls,
            [theme_id |-> label + 1,
             snippets |-> MemberSnippets(snippets, clusters_map[label]),
             status |-> "pending"])
    /\ pc' = "await_summary"
    /\ UNCHANGED <<entry, snippets, n_clusters, embed_calls, embed_failed,
                   fit_calls, fit_raised, clusters_map, label_iter, themes>>
    /\ UNCHANGED <<extractVars, serviceVars>>

\* The awaited call ends: its theme, or the fallback theme if it raised, is
\* appended.  The return follows the last iteration without a suspension
\* point.
SummarizeReturn ==
    /\ entry = "identify"
    /\ pc = "await_summary"
    /\ LET label == Head(label_iter)
           call == summ_calls[Len(summ_calls)]
       IN \E reply \in SummaryReplies :
            LET res == GenerateThemeSummary(call.snippets, call.theme_id, reply)
            IN /\ summ_calls' = [summ_calls EXCEPT ![Len(summ_calls)].status =
                                    IF res.raised THEN "raised" ELSE reply]
               /\ themes' = Append(themes,
                    IF res.raised
                    THEN FallbackTheme(label + 1, call.snippets)
                    ELSE res.value)
    /\ label_iter' = Tail(label_iter)
    /\ pc' = IF Tail(label_iter) = <<>> THEN "done" ELSE "summarize"
    /\ UNCHANGED <<entry, snippets, n_clusters, embed_calls, embed_failed,
                   fit_calls, fit_raised, clusters_map>>
    /\ UNCHANGED <<extractVars, serviceVars>>

\* ------------------------------------- llm_clients.py: answer extraction
\* The "answer" values an LLM reply can carry: the sentinel as prompted, the
\* sentinel in another letter case, an empty answer and a genuine answer.
AnswerTexts == {"NO_ANSWER", "no_answer", "", "text A"}

\* str.upper() on the answers above.
Upper(a) ==
    IF a = "no_answer" THEN "NO_ANSWER"
    ELSE IF a = "text A" THEN "TEXT A"
    ELSE a

\* What one extract_answer_from_chunk call can meet:
\*   "raise"  the call raises (unknown backend, no Groq client, a Gemini reply
\*            object without "answer" or "citation");
\*   "failed" the LLM call failed or its reply is not JSON;
\*   "json"   the reply is an object with the given answer and the chunk's
\*            citation.
ExtractReplies ==
    {[kind |-> "raise", answer |-> ""], [kind |-> "failed", answer |-> ""]}
        \cup {[kind |-> "json", answer |-> a] : a \in AnswerTexts}

\* "DocID: <doc_id>, Page: <page_num>, Para: <para_idx>" of the c-th chunk
\* retrieved for a document.
ChunkCitation(doc_id, c) == <<"DocID", doc_id, "Chunk", c>>

\* extract_answer_from_chunk with the letter case of the sentinel not folded.
ExtractAnswerFromChunk_CaseSensitive(doc_id, c, reply) ==
    IF reply.kind = "raise"
    THEN [state |-> "raised", answer |-> "", citation |-> <<>>, reply |-> reply]
    ELSE IF reply.kind = "failed" \/ reply.answer = "NO_ANSWER"
    THEN [state |-> "returned", answer |-> "NO_ANSWER", citation |-> <<>>,
          reply |-> reply]
    ELSE [state |-> "returned", answer |-> reply.answer,
          citation |-> ChunkCitation(doc_id, c), reply |-> reply]

\* extract_answer_from_chunk: the slot value its task leaves in the gather.
ExtractAnswerFromChunk(doc_id, c, reply) ==
    IF reply.kind = "raise"
    THEN [state |-> "raised", answer |-> "", citation |-> <<>>, reply |-> reply]
    ELSE IF reply.kind = "failed" \/ Upper(reply.answer) = "NO_ANSWER"
    THEN [state |-> "returned", answer |-> "NO_ANSWER", citation |-> <<>>,
          reply |-> reply]
    ELSE [state |-> "returned", answer |-> reply.answer,
          citation |-> ChunkCitation(doc_id, c), reply |-> reply]

\* ------------------------------------------ api/v1/query.py, theme.py
PendingSlot == [state |-> "pending", answer |-> "", citation |-> <<>>,
                reply |-> [kind |-> "none", answer |-> ""]]

\* The stage's filter: not an exception, a truthy answer, not "NO_ANSWER".
IsGenuine(res) ==
    /\ res.state = "returned"
    /\ res.answer # ""
    /\ res.answer # "NO_ANSWER"

\* The loop over the gathered results left at the first exception object, as
\* if the exception of an invocation ended the document's processing.
RECURSIVE CollectSnippets_AbortOnRaise(_, _, _, _)
CollectSnippets_AbortOnRaise(results, doc_id, kind, from) ==
    IF from > Len(results) \/ results[from].state = "raised" THEN <<>>
    ELSE LET res == results[from]
             rest == CollectSnippets_AbortOnRaise(results, doc_id, kind, from + 1)
         IN IF IsGenuine(res)
            THEN <<IF kind = "query"
                   THEN [text |-> res.answer, citation |-> res.citation]
                   ELSE [doc_id |-> doc_id, text |-> res.answer,
                         citation |-> res.citation]>> \o rest
            ELSE rest

\* The loop over the gathered results with every snippet put in front of those
\* collected before it.
RECURSIVE CollectSnippets_Reversed(_, _, _, _)
CollectSnippets_Reversed(results, doc_id, kind, from) ==
    IF from > Len(results) THEN <<>>
    ELSE LET res == results[from]
             rest == CollectSnippets_Reversed(results, doc_id, kind, from + 1)
         IN IF IsGenuine(res)
            THEN rest \o <<IF kind = "query"
                           THEN [text |-> res.answer, citation |-> res.citation]
                           ELSE [doc_id |-> doc_id, text |-> res.answer,
                                 citation |-> res.citation]>>
            ELSE rest

\* The snippets one document's loop over the gathered results produces.
RECURSIVE CollectSnippets(_, _, _, _)
CollectSnippets(results, doc_id, kind, from) ==
    IF from > Len(results) THEN <<>>
    ELSE LET res == results[from]
             rest == CollectSnippets(results, doc_id, kind, from + 1)
         IN IF IsGenuine(res)
            THEN <<IF kind = "query"
                   THEN [text |-> res.answer, citation |-> res.citation]
                   ELSE [doc_id |-> doc_id, text |-> res.answer,
                         citation |-> res.citation]>> \o rest
            ELSE rest

\* process_single_doc returning a DocumentAnswers whether or not the document
\* gave a snippet.
DocumentAnswersOrNone_Always(doc_id, snips) ==
    [kind |-> "DocumentAnswers", doc_id |-> doc_id, answers |-> snips]

\* What process_single_doc returns: a DocumentAnswers, or None.
DocumentAnswersOrNone(doc_id, snips) ==
    IF snips # <<>>
    THEN [kind |-> "DocumentAnswers", doc_id |-> doc_id, answers |-> snips]
    ELSE [kind |-> "None", doc_id |-> doc_id, answers |-> <<>>]

\* The loop over the completed results without its test "if doc_ans": every
\* result is appended, None or not.
RECURSIVE IndividualAnswers_KeepNone(_, _)
IndividualAnswers_KeepNone(results, from) ==
    IF from > Len(results) THEN <<>>
    ELSE <<[doc_id |-> results[from].doc_id, answers |-> results[from].answers]>>
            \o IndividualAnswers_KeepNone(results, from + 1)

\* individual_answers: the non-None results, in doc_ids order.
RECURSIVE IndividualAnswers(_, _)
IndividualAnswers(results, from) ==
    IF from > Len(results) THEN <<>>
    ELSE IF results[from].kind = "DocumentAnswers"
    THEN <<[doc_id |-> results[from].doc_id, answers |-> results[from].answers]>>
            \o IndividualAnswers(results, from + 1)
    ELSE IndividualAnswers(results, from + 1)

RECURSIVE SumTo(_, _)
SumTo(f, n) == IF n = 0 THEN 0 ELSE f[n] + SumTo(f, n - 1)

\* The provider configurations: a usable one, a DEFAULT_LLM_BACKEND that
\* names no backend, and a selected backend whose client or key is missing.
Configs == {"ok", "unknown backend", "no client"}

\* get_embedding_vector raises ValueError for an unknown selector, and the
\* backend's function raises RuntimeError without its client or key.
EmbeddingRaisesUnder(cfg) == cfg # "ok"

\* How many chunks retrieve_top_k_chunks returns: its embedding step's
\* exception is caught and answered with the empty list.
RetrievedUnder(cfg, found) == IF EmbeddingRaisesUnder(cfg) THEN 0 ELSE found

\* The doc_ids lists of n entries, up to a renaming of the documents: a list
\* may name a document more than once.
RequestedIds(n) ==
    {s \in [1..n -> 1..n] :
        \A i \in 1..n :
            /\ s[i] <= i
            /\ s[i] > 1 => \E j \in 1..(i - 1) : s[j] = s[i] - 1}

\* A query or theme request over n documents; retrieval returns up to top_k
\* chunks per document (none when it fails or finds nothing, as it does for
\* every document under a configuration error).
InitExtract ==
    /\ entry = "none"
    /\ snippets = <<>>
    /\ n_clusters = 0
    /\ pc = "idle"
    /\ embed_calls = <<>>
    /\ embed_failed = {}
    /\ fit_calls = <<>>
    /\ fit_raised = FALSE
    /\ clusters_map = <<>>
    /\ label_iter = <<>>
    /\ summ_calls = <<>>
    /\ themes = <<>>
    /\ ServicesIdle
    /\ path \in {"query", "theme"}
    /\ config \in Configs
    /\ \E n \in 0..MaxDocs :
         /\ doc_ids \in RequestedIds(n)
         /\ \E found \in {h \in [1..n -> 0..DEFAULT_TOP_K] :
                                SumTo(h, n) <= MaxTasks} :
              hits = [d \in 1..n |-> RetrievedUnder(config, found[d])]
         /\ doc_pc = [d \in 1..n |-> "new"]
         /\ slots = [d \in 1..n |-> <<>>]
         /\ overtaken = [d \in 1..n |-> FALSE]
         /\ writes = {}
         /\ doc_result = [d \in 1..n |-> [kind |-> "unset",
                                          doc_id |-> doc_ids[d],
                                          answers |-> <<>>]]
    /\ all_snippets = <<>>
    /\ appends = <<>>
    /\ stage = "received"
    /\ response = [kind |-> "none"]

\* if not doc_ids: raise HTTPException(400)
RejectNoDocuments ==
    /\ stage = "received"
    /\ doc_ids = <<>>
    /\ stage' = "responded"
    /\ response' = [kind |-> "HTTP 400"]
    /\ UNCHANGED <<path, config, doc_ids, hits, doc_pc, slots, overtaken,
                   writes, doc_result, all_snippets, appends>>
    /\ UNCHANGED <<themeVars, serviceVars>>

\* The concurrent units: the coroutine of the d-th document and the
\* extraction task of its c-th chunk; and the objects they write to.
DocUnit(d) == [kind |-> "document", d |-> d, c |-> 0]
ChunkUnit(d, c) == [kind |-> "chunk", d |-> d, c |-> c]
Write(unit, name, d, c) ==
    [unit |-> unit, object |-> [name |-> name, d |-> d, c |-> c]]

\* What the coroutine of the d-th document writes to after its gather: its
\* slot of the outer gather, and, with a snippet to keep, its local list
\* snippets (query) or the handler's list all_snippets (theme).
DocWrites(kind, d, snips) ==
    {Write(DocUnit(d), "gather", d, 0)}
        \cup (IF snips = <<>> THEN {}
              ELSE IF kind = "query"
              THEN {Write(DocUnit(d), "snippets", d, 0)}
              ELSE {Write(DocUnit(d), "all_snippets", 0, 0)})

\* The appends of one coroutine's loop put into the pool behind its first
\* element, as if another coroutine's appends could come in between.
Extended_Interleaved(pool, snips) ==
    IF pool = <<>> THEN snips ELSE <<Head(pool)>> \o snips \o Tail(pool)

\* all_snippets after the appends of one coroutine's loop, which holds no
\* suspension point.
Extended(pool, snips) == pool \o snips

\* The loop over the gathered results of document d and what follows it
\* without a suspension point: the return value (query) or the appends to the
\* shared pool (theme).
FinishDoc(d, results) ==
    LET snips == CollectSnippets(results, doc_ids[d], path, 1)
    IN /\ doc_pc' = [doc_pc EXCEPT ![d] = "done"]
       /\ writes' = writes \cup DocWrites(path, d, snips)
       /\ IF path = "query"
          THEN /\ doc_result' = [doc_result EXCEPT
                                   ![d] = DocumentAnswersOrNone(doc_ids[d], snips)]
               /\ UNCHANGED <<all_snippets, appends>>
          ELSE /\ all_snippets' = Extended(all_snippets, snips)
               /\ appends' = IF snips = <<>> THEN appends
                             ELSE Append(appends, [d |-> d, n |-> Len(snips)])
               /\ doc_result' = [doc_result EXCEPT ![d].kind = "None"]

\* The event loop is inside a call that does not give it back: the
\* retrieve_top_k_chunks call of a coroutine, a plain function that makes its
\* embedding and search calls before it returns.
LoopBusy == \E e \in 1..Len(doc_ids) : doc_pc[e] = "retrieving"

\* The event loop starts the coroutine of document d, in doc_ids order, and
\* the coroutine calls retrieve_top_k_chunks.
CallRetrieve(d) ==
    /\ stage \in {"received", "gathering"}
    /\ ~LoopBusy
    /\ doc_pc[d] = "new"
    /\ \A e \in 1..(d - 1) : doc_pc[e] # "new"
    /\ stage' = "gathering"
    /\ doc_pc' = [doc_pc EXCEPT ![d] = "retrieving"]
    /\ UNCHANGED <<path, config, doc_ids, hits, slots, overtaken, writes,
                   doc_result, all_snippets, appends, response>>
    /\ UNCHANGED <<themeVars, serviceVars>>

\* retrieve_top_k_chunks returns and the coroutine of document d runs to its
\* await: one extraction task per chunk is handed to gather.  With no chunk
\* the gather is already complete and the coroutine runs to its end.
StartDoc(d) ==
    /\ stage = "gathering"
    /\ doc_pc[d] = "retrieving"
    /\ slots' = [slots EXCEPT ![d] = [c \in 1..hits[d] |-> PendingSlot]]
    /\ IF hits[d] = 0
       THEN FinishDoc(d, <<>>)
       ELSE /\ doc_pc' = [doc_pc EXCEPT ![d] = "gather"]
            /\ UNCHANGED <<writes, doc_result, all_snippets, appends>>
    /\ UNCHANGED <<path, config, doc_ids, hits, overtaken, stage, response>>
    /\ UNCHANGED <<themeVars, serviceVars>>

\* One extraction task ends, in any order: gather keeps its value, or the
\* exception it raised, in the task's own slot.  The task that completes the
\* gather resumes the document's coroutine, which is FinishDoc.
TaskEnds(d, c) ==
    /\ stage = "gathering"
    /\ ~LoopBusy
    /\ \A e \in 1..Len(doc_ids) : doc_pc[e] # "new"
    /\ doc_pc[d] = "gather"
    /\ slots[d][c].state = "pending"
    /\ \E reply \in ExtractReplies :
         slots' = [slots EXCEPT
                     ![d][c] = ExtractAnswerFromChunk(doc_ids[d], c, reply)]
    /\ overtaken' = [overtaken EXCEPT
                       ![d] = @ \/ \E e \in 1..(c - 1) :
                                      slots[d][e].state = "pending"]
    /\ writes' = writes \cup {Write(ChunkUnit(d, c), "results", d, c)}
    /\ UNCHANGED <<path, config, doc_ids, hits, doc_pc, doc_result, all_snippets,
                   appends, stage, response>>
    /\ UNCHANGED <<themeVars, serviceVars>>

\* The gather of document d is complete: its coroutine resumes.
ResumeDoc(d) ==
    /\ stage = "gathering"
    /\ ~LoopBusy
    /\ doc_pc[d] = "gather"
    /\ \A c \in 1..Len(slots[d]) : slots[d][c].state # "pending"
    /\ FinishDoc(d, slots[d])
    /\ UNCHANGED <<path, config, doc_ids, hits, slots, overtaken, stage, response>>
    /\ UNCHANGED <<themeVars, serviceVars>>

\* The outer gather is complete.  query: the response is built from the
\* per-document results.  theme: an empty pool is answered with no theme, any
\* other is handed to identify_and_summarize_themes.
Respond ==
    /\ stage = "gathering"
    /\ \A d \in 1..Len(doc_ids) : doc_pc[d] = "done"
    /\ stage' = "responded"
    /\ response' =
         IF path = "query"
         THEN [kind |-> "QueryResponse",
               individual_answers |-> IndividualAnswers(doc_result, 1)]
         ELSE IF all_snippets = <<>>
         THEN [kind |-> "ThemeResponse", themes |-> <<>>]
         ELSE [kind |-> "identify_and_summarize_themes",
               snippets |-> all_snippets]
    /\ UNCHANGED <<path, config, doc_ids, hits, doc_pc, slots, overtaken,
                   writes, doc_result, all_snippets, appends>>
    /\ UNCHANGED <<themeVars, serviceVars>>

\* ------------------------------- services/llm_clients.py: embeddings
\* What an embedding provider call can hand back, as far as its callers look
\* at it: a flat list of len numbers, or a list of rows lists of len numbers
\* each (a batch).
Flat(n) == [shape |-> "flat", rows |-> 0, len |-> n]
Batch(k, n) == [shape |-> "batch", rows |-> k, len |-> n]
EmbeddingValues ==
    {Flat(VECTOR_DIMENSION), Flat(VECTOR_DIMENSION - 1),
     Flat(VECTOR_DIMENSION + 1), Batch(1, VECTOR_DIMENSION),
     Batch(1, VECTOR_DIMENSION - 1), Batch(2, VECTOR_DIMENSION)}

\* get_embedding_vector: raises, or returns the provider's value.
EmbeddingReplies ==
    {[kind |-> "raise", value |-> NoVector]}
        \cup {[kind |-> "value", value |-> v] : v \in EmbeddingValues}

\* if isinstance(v, list) and len(v) == 1 and isinstance(v[0], list): v = v[0]
Unwrap(v) == IF v.shape = "batch" /\ v.rows = 1 THEN Flat(v.len) ELSE v

\* [float(x) for x in v]: float() of a list raises TypeError.
Floats(v) ==
    IF v.shape = "batch"
    THEN [kind |-> "raise", value |-> NoVector]
    ELSE [kind |-> "value", value |-> v]

\* get_query_embedding
GetQueryEmbedding(reply) ==
    IF reply.kind = "raise" THEN reply ELSE Floats(Unwrap(reply.value))

\* ------------------------------------------- services/retrieval.py
\* A dict with no key.
EmptyDict == [k \in {} |-> 0]

\* The payloads a stored point can carry: any of the keys may be missing, the
\* doc_id may be empty or that of another document, and a key the indexer
\* does not write may be present.
Field(k, vals) == {EmptyDict} \cup {k :> v : v \in vals}
Payloads ==
    {d @@ t @@ pg @@ pa @@ x :
        d \in Field("doc_id", {"", "docX", "docY"}),
        t \in Field("chunk_text", {"A"}),
        pg \in Field("page_num", {1}),
        pa \in Field("paragraph_index", {2}),
        x \in Field("source", {"f.pdf"})}

\* The hits of a search: payload is None (has_payload FALSE) or a dict.
Hits ==
    {[has_payload |-> FALSE, payload |-> EmptyDict]}
        \cup {[has_payload |-> TRUE, payload |-> p] : p \in Payloads}

\* What qdrant_client.search can do: raise, or return at most limit hits.
SearchOutcomes(limit) ==
    {[kind |-> "raise", hits |-> <<>>]}
        \cup {[kind |-> "hits", hits |-> h] :
                 h \in UNION {[1..n -> Hits] : n \in 0..limit}}

\* dict.get(k, default)
Get(dict, k, default) == IF k \in DOMAIN dict THEN dict[k] ELSE default

\* The chunk built from a hit with the payload's doc_id taken as it is.
ChunkOfHit_NoDocIdDefault(hit, doc_id) ==
    LET payload == IF hit.has_payload THEN hit.payload ELSE EmptyDict
    IN [doc_id |-> Get(payload, "doc_id", ""),
        chunk_text |-> Get(payload, "chunk_text", ""),
        page_num |-> Get(payload, "page_num", 0),
        paragraph_index |-> Get(payload, "paragraph_index", 0)]

\* The body of the loop over the hits: payload = hit.payload or {} and the
\* chunk dict appended for it.
ChunkOfHit(hit, doc_id) ==
    LET payload == IF hit.has_payload THEN hit.payload ELSE EmptyDict
        chunk_doc_id == IF Get(payload, "doc_id", "") = "" THEN doc_id
                        ELSE Get(payload, "doc_id", "")
    IN [doc_id |-> chunk_doc_id,
        chunk_text |-> Get(payload, "chunk_text", ""),
        page_num |-> Get(payload, "page_num", 0),
        paragraph_index |-> Get(payload, "paragraph_index", 0)]

\* A return value of retrieve_top_k_chunks, and an exception leaving it.
ReturnList(cs) == [kind |-> "list", chunks |-> cs]
RetrieveRaises == [kind |-> "raised", chunks |-> <<>>]

\* The search's except clause left out: its exception leaves the function.
SearchFailed_Propagates == RetrieveRaises

\* except Exception around the search: log and return [].
SearchFailed == ReturnList(<<>>)

\* A call retrieve_top_k_chunks(question, doc_id, top_k).
InitRetrieve ==
    /\ entry = "retrieve"
    /\ ThemeIdle
    /\ ExtractIdle
    /\ IndexIdle
    /\ UuidIdle
    /\ LateIdle
    /\ rt_pc = "embed"
    /\ rt_doc_id = "docX"
    /\ top_k \in 1..MaxHits
    /\ query_embedding = [kind |-> "none", value |-> NoVector]
    /\ search_calls = <<>>
    /\ search_result = <<>>
    /\ rt_return = [kind |-> "none", chunks |-> <<>>]

\* The embedding step and the two statements after it, which no try covers.
RetrieveEmbed ==
    /\ rt_pc = "embed"
    /\ \E reply \in EmbeddingReplies :
         LET qe == GetQueryEmbedding(reply)
             again == IF qe.kind = "raise" THEN qe ELSE Floats(Unwrap(qe.value))
         IN /\ query_embedding' = qe
            /\ IF qe.kind = "raise"
               THEN /\ rt_pc' = "returned"
                    /\ rt_return' = ReturnList(<<>>)
               ELSE IF again.kind = "raise"
               THEN /\ rt_pc' = "returned"
                    /\ rt_return' = RetrieveRaises
               ELSE /\ rt_pc' = "search"
                    /\ UNCHANGED rt_return
    /\ UNCHANGED <<rt_doc_id, top_k, search_calls, search_result>>
    /\ UNCHANGED <<themeVars, extractVars, indexVars, uuidVars, lateVars>>

\* The search, filtered by doc_id and limited to top_k, and the loop over its
\* hits.
RetrieveSearch ==
    /\ rt_pc = "search"
    /\ \E out \in SearchOutcomes(top_k) :
         /\ search_calls' = Append(search_calls,
                                   [limit |-> top_k, doc_id |-> rt_doc_id,
                                    raised |-> out.kind = "raise"])
         /\ IF out.kind = "raise"
            THEN /\ rt_return' = SearchFailed
                 /\ UNCHANGED search_result
            ELSE /\ search_result' = out.hits
                 /\ rt_return' =
                      ReturnList([i \in 1..Len(out.hits) |->
                                     ChunkOfHit(out.hits[i], rt_doc_id)])
    /\ rt_pc' = "returned"
    /\ UNCHANGED <<rt_doc_id, top_k, query_embedding>>
    /\ UNCHANGED <<themeVars, extractVars, indexVars, uuidVars, lateVars>>


\* ------------------------------------ services/embedding_index.py
\* Strings are sequences of characters here.  str(n) of an integer:
DigitChars == <<"0", "1", "2", "3", "4", "5", "6", "7", "8", "9">>
RECURSIVE Digits(_)
Digits(n) ==
    IF n < 10 THEN <<DigitChars[n + 1]>>
    ELSE Digits(n \div 10) \o <<DigitChars[(n % 10) + 1]>>
Str(n) == IF n < 0 THEN <<"-">> \o Digits(-n) ELSE Digits(n)

\* hashlib.md5(...).hexdigest() and str(uuid.UUID(...)): the digest is not
\* computed; both are kept as one-to-one wrappers of what they were given.
Md5HexDigest(key) == [md5 |-> key]
UuidStr(digest) == [uuid |-> digest]

\* The key with the three parts put one after the other, nothing in between.
UuidKey_NoSeparators(doc_id, page_num, para_idx) ==
    doc_id \o Str(page_num) \o Str(para_idx)

\* key = f"{doc_id}_pg{page_num}_para{para_idx}"
UuidKey(doc_id, page_num, para_idx) ==
    doc_id \o <<"_", "p", "g">> \o Str(page_num)
           \o <<"_", "p", "a", "r", "a">> \o Str(para_idx)

\* deterministic_uuid
DeterministicUuid(doc_id, page_num, para_idx) ==
    UuidStr(Md5HexDigest(UuidKey(doc_id, page_num, para_idx)))

\* The chunk list of n paragraphs of page 1 of document "d".
ChunkList(n) ==
    [i \in 1..n |-> [doc_id |-> <<"d">>, page_num |-> 1,
                     paragraph_index |-> i - 1,
                     chunk_text |-> <<"text", i - 1>>]]

\* The point dict built for a chunk and its vector.
Point(chunk, vector) ==
    [id |-> DeterministicUuid(chunk.doc_id, chunk.page_num,
                              chunk.paragraph_index),
     vector |-> vector,
     payload |-> chunk]

\* The try around the embedding call: the vector, unwrapped and converted, or
\* a raise from any of the three statements.
EmbedChunk(reply) ==
    IF reply.kind = "raise" THEN reply ELSE Floats(Unwrap(reply.value))

\* The chunk is dropped only when its embedding raised: no length check.
Dropped_NoDimensionCheck(v) == v.kind = "raise"

\* The two continue statements: the embedding raised, or its length is not
\* VECTOR_DIMENSION.
Dropped(v) == v.kind = "raise" \/ v.value.len # VECTOR_DIMENSION

\* The flush condition without its end-of-list half.
FlushDue_FullBufferOnly(buf, i, n, size) == Len(buf) >= size

\* if len(buffer_points) >= batch_size or idx == len(chunks) - 1
FlushDue(buf, i, n, size) == Len(buf) >= size \/ i = n - 1

\* The buffer cleared only after an upsert that went through.
AfterUpsert_KeepOnFailure(buf, ok) == IF ok THEN <<>> ELSE buf

\* buffer_points.clear(), after the try around the upsert.
AfterUpsert(buf, ok) == <<>>

\* A call index_chunks_in_vector_store(chunks, batch_size).
InitIndex ==
    /\ entry = "index"
    /\ ThemeIdle
    /\ ExtractIdle
    /\ RetrieveIdle
    /\ UuidIdle
    /\ LateIdle
    /\ ix_pc = "start"
    /\ chunks \in {ChunkList(n) : n \in 0..MaxChunks}
    /\ batch_size \in 1..MaxBatch
    /\ idx = 0
    /\ vectors = <<>>
    /\ buffer_points = <<>>
    /\ upsert_calls = <<>>
    /\ ix_return = "none"

\* if not chunks: return
IndexNoChunks ==
    /\ ix_pc = "start"
    /\ chunks = <<>>
    /\ ix_pc' = "returned"
    /\ ix_return' = "None"
    /\ UNCHANGED <<chunks, batch_size, idx, vectors, buffer_points,
                   upsert_calls>>
    /\ UNCHANGED <<themeVars, extractVars, retrVars, uuidVars, lateVars>>

\* ensure_collection_exists() and the client's construction: no try covers
\* them, so a failure of the store leaves the function as an exception.
IndexSetUp ==
    /\ ix_pc = "start"
    /\ chunks # <<>>
    /\ \E ok \in BOOLEAN :
         IF ok
         THEN ix_pc' = "loop" /\ UNCHANGED ix_return
         ELSE ix_pc' = "returned" /\ ix_return' = "raised"
    /\ UNCHANGED <<chunks, batch_size, idx, vectors, buffer_points,
                   upsert_calls>>
    /\ UNCHANGED <<themeVars, extractVars, retrVars, uuidVars, lateVars>>

\* One iteration of the loop over the chunks: the embedding, the two ways of
\* dropping the chunk (continue), the append to the buffer and, when due, the
\* upsert of the buffer (which may fail) and its clearing.  The function
\* returns after the iteration of the last chunk.
IndexChunk ==
    /\ ix_pc = "loop"
    /\ \E reply \in EmbeddingReplies, ok \in BOOLEAN :
         LET v == EmbedChunk(reply)
             buf == IF Dropped(v) THEN buffer_points
                    ELSE Append(buffer_points, Point(chunks[idx + 1], v.value))
             flush == ~Dropped(v) /\ FlushDue(buf, idx, Len(chunks), batch_size)
         IN /\ vectors' = Append(vectors, reply)
            /\ upsert_calls' = IF flush
                               THEN Append(upsert_calls,
                                           [points |-> buf, ok |-> ok])
                               ELSE upsert_calls
            /\ buffer_points' = IF flush THEN AfterUpsert(buf, ok) ELSE buf
    /\ idx' = idx + 1
    /\ IF idx + 1 = Len(chunks)
       THEN ix_pc' = "returned" /\ ix_return' = "None"
       ELSE UNCHANGED <<ix_pc, ix_return>>
    /\ UNCHANGED <<chunks, batch_size>>
    /\ UNCHANGED <<themeVars, extractVars, retrVars, uuidVars, lateVars>>

\* The doc_ids handed to deterministic_uuid: put together from up to
\* MaxIdTokens pieces, among them the separators of the key and a digit.
IdTokens == {<<"a">>, <<"1">>, <<"_", "p", "g">>, <<"_", "p", "a", "r", "a">>}
RECURSIVE IdsOf(_)
IdsOf(n) ==
    IF n = 0 THEN {<<>>}
    ELSE IdsOf(n - 1) \cup {s \o t : s \in IdsOf(n - 1), t \in IdTokens}
Triples ==
    {[doc_id |-> d, page_num |-> pg, para_idx |-> pa] :
        d \in IdsOf(MaxIdTokens), pg \in {1, 11}, pa \in {1, 11}}

\* Two calls of deterministic_uuid, on equal or different triples.
InitUuid ==
    /\ entry = "uuid"
    /\ ThemeIdle
    /\ ExtractIdle
    /\ RetrieveIdle
    /\ IndexIdle
    /\ LateIdle
    /\ triples \in [1..2 -> Triples]
    /\ uuids = [i \in 1..2 |-> [called |-> FALSE, key |-> <<>>,
                                id |-> UuidStr(Md5HexDigest(<<>>))]]

\* The i-th call returns.
CallDeterministicUuid(i) ==
    /\ ~uuids[i].called
    /\ uuids' = [uuids EXCEPT
                   ![i] = [called |-> TRUE,
                           key |-> UuidKey(triples[i].doc_id,
                                           triples[i].page_num,
                                           triples[i].para_idx),
                           id |-> DeterministicUuid(triples[i].doc_id,
                                                    triples[i].page_num,
                                                    triples[i].para_idx)]]
    /\ UNCHANGED triples
    /\ UNCHANGED <<themeVars, extractVars, retrVars, indexVars, lateVars>>

\* ------------------- services/embedding_index.py: writers and the store
\* The key of deterministic_uuid without the paragraph index.
UuidKeyOfChunk_NoParagraph(chunk) ==
    chunk.doc_id \o <<"_", "p", "g">> \o Str(chunk.page_num)

\* The key deterministic_uuid hashes for a chunk.
UuidKeyOfChunk(chunk) ==
    UuidKey(chunk.doc_id, chunk.page_num, chunk.paragraph_index)

\* The point a writer builds for a chunk: Point, with the id spelt out.
StorePoint(chunk, vector) ==
    [id |-> UuidStr(Md5HexDigest(UuidKeyOfChunk(chunk))),
     vector |-> vector,
     payload |-> chunk]

\* client.upsert(points=...): in list order, each point takes the place of the
\* stored point with its id, if there is one.
RECURSIVE StoreUpsert(_, _)
StoreUpsert(stored, points) ==
    IF points = <<>> THEN stored
    ELSE StoreUpsert({q \in stored : q.id # Head(points).id} \cup {Head(points)},
                     Tail(points))

\* The collection deleted and created anew by every call.
EnsureCollection_Recreate(c) ==
    [exists |-> TRUE, created |-> c.created + 1, points |-> {}]

\* ensure_collection_exists, run without another client in between:
\* create_collection only if get_collections does not list the name.
EnsureCollection(c) ==
    IF ~c.exists
    THEN [exists |-> TRUE, created |-> c.created + 1, points |-> c.points]
    ELSE c

\* The chunks the writers index: two paragraphs of page 1 of document "d",
\* the first of them with two different texts.
StoreChunk(para_idx, text) ==
    [doc_id |-> <<"d">>, page_num |-> 1, paragraph_index |-> para_idx,
     chunk_text |-> <<text>>]
StoreChunks == {StoreChunk(1, "t"), StoreChunk(1, "u"), StoreChunk(2, "t")}
StoreChunkLists == UNION {[1..n -> StoreChunks] : n \in 0..MaxStoreChunks}

\* A point of another document, indexed earlier.
OtherPoint ==
    StorePoint([doc_id |-> <<"a">>, page_num |-> 1, paragraph_index |-> 1,
                chunk_text |-> <<"t">>], Flat(VECTOR_DIMENSION))

\* Two writers are about to call index_chunks_in_vector_store on the same
\* chunk list; the collection is missing, empty, or holds another document.
InitStore ==
    /\ entry = "store"
    /\ ThemeIdle
    /\ ExtractIdle
    /\ RetrieveIdle
    /\ UuidIdle
    /\ ix_pc = "idle"
    /\ chunks \in StoreChunkLists
    /\ batch_size \in 1..2
    /\ idx = 0
    /\ vectors = <<>>
    /\ buffer_points = <<>>
    /\ upsert_calls = <<>>
    /\ ix_return = "none"
    /\ collection \in {[exists |-> FALSE, created |-> 0, points |-> {}],
                       [exists |-> TRUE, created |-> 0, points |-> {}],
                       [exists |-> TRUE, created |-> 0, points |-> {OtherPoint}]}
    /\ writers = [w \in 1..2 |-> [pc |-> "start", idx |-> 0, buffer |-> <<>>]]
    /\ all_ok = TRUE
    /\ ensure_calls = 0
    /\ TailIdle

\* if not chunks: return
WriterNoChunks(w) ==
    /\ writers[w].pc = "start"
    /\ chunks = <<>>
    /\ writers' = [writers EXCEPT ![w].pc = "returned"]
    /\ UNCHANGED <<collection, all_ok, ensure_calls>>
    /\ UNCHANGED <<themeVars, extractVars, retrVars, indexVars, uuidVars,
                   tailVars>>

\* ensure_collection_exists up to its test: get_collections answers, or
\* raises, which ends the writer's call.
WriterGetCollections(w) ==
    /\ writers[w].pc = "start"
    /\ chunks # <<>>
    /\ \E ok \in BOOLEAN :
         /\ writers' = [writers EXCEPT
                          ![w].pc = IF ~ok THEN "raised"
                                    ELSE IF collection.exists THEN "loop"
                                    ELSE "create"]
         /\ all_ok' = (all_ok /\ ok)
    /\ UNCHANGED <<collection, ensure_calls>>
    /\ UNCHANGED <<themeVars, extractVars, retrVars, indexVars, uuidVars,
                   tailVars>>

\* create_collection of a writer that found the name missing: the store
\* refuses it if the collection has been created in the meantime.
WriterCreateCollection(w) ==
    /\ writers[w].pc = "create"
    /\ \E ok \in BOOLEAN :
         IF ok /\ ~collection.exists
         THEN /\ collection' = EnsureCollection(collection)
              /\ writers' = [writers EXCEPT ![w].pc = "loop"]
              /\ UNCHANGED all_ok
         ELSE /\ writers' = [writers EXCEPT ![w].pc = "raised"]
              /\ all_ok' = FALSE
              /\ UNCHANGED collection
    /\ UNCHANGED ensure_calls
    /\ UNCHANGED <<themeVars, extractVars, retrVars, indexVars, uuidVars,
                   tailVars>>

\* One iteration of a writer's loop, as IndexChunk, with the store taking the
\* points of an upsert that goes through.
WriterChunk(w) ==
    /\ writers[w].pc = "loop"
    /\ \E reply \in EmbeddingReplies, ok \in BOOLEAN :
         LET wr == writers[w]
             v == EmbedChunk(reply)
             buf == IF Dropped(v) THEN wr.buffer
                    ELSE Append(wr.buffer,
                                StorePoint(chunks[wr.idx + 1], v.value))
             flush == ~Dropped(v)
                         /\ FlushDue(buf, wr.idx, Len(chunks), batch_size)
         IN /\ collection' = IF flush /\ ok
                             THEN [collection EXCEPT
                                     !.points = StoreUpsert(@, buf)]
                             ELSE collection
            /\ writers' = [writers EXCEPT
                             ![w] = [pc |-> IF wr.idx + 1 = Len(chunks)
                                            THEN "returned" ELSE "loop",
                                     idx |-> wr.idx + 1,
                                     buffer |-> IF flush
                                                THEN AfterUpsert(buf, ok)
                                                ELSE buf]]
            /\ all_ok' = (all_ok /\ ~Dropped(v) /\ (flush => ok))
    /\ UNCHANGED ensure_calls
    /\ UNCHANGED <<themeVars, extractVars, retrVars, indexVars, uuidVars,
                   tailVars>>

\* A direct call of ensure_collection_exists that returns.
CallEnsureCollectionExists ==
    /\ ensure_calls < MaxEnsureCalls
    /\ ensure_calls' = ensure_calls + 1
    /\ collection' = EnsureCollection(collection)
    /\ UNCHANGED <<writers, all_ok>>
    /\ UNCHANGED <<themeVars, extractVars, retrVars, indexVars, uuidVars,
                   tailVars>>

\* ---------------------------------------------------------------------
\* llm_clients.py: extract_answer_from_chunk and its two backends.
\* A JSON value is a record [type, val]; a JSON object is a function from
\* the field names it has to JSON values.

JsonStr(s) == [type |-> "string", val |-> s]
JsonNum == [type |-> "number", val |-> "42"]

\* {"answer": "NO_ANSWER", "citation": ""}
NoAnswerDict == [answer |-> JsonStr("NO_ANSWER"), citation |-> JsonStr("")]

\* str.lower() on the selectors that occur.
Lower(s) ==
    CASE s = "GROQ" -> "groq"
      [] s = "Gemini" -> "gemini"
      [] s = "OpenAI" -> "openai"
      [] OTHER -> s

AnswerValues == {JsonStr("text A"), JsonStr("NO_ANSWER"), JsonStr("no_answer"),
                 JsonNum}
CitationValues == {JsonStr(""), JsonStr("DocID: a, Page: 1, Para: 1")}

JsonObjects ==
    {EmptyDict}
    \cup {("answer" :> a) : a \in AnswerValues}
    \cup {("citation" :> c) : c \in CitationValues}
    \cup {("answer" :> a) @@ ("citation" :> c) :
            a \in AnswerValues, c \in CitationValues}

\* What the provider call does: it raises, or it answers a text that is
\* prose, a JSON list, text with a leading brace that is no JSON, or a
\* JSON object.
LlmReplies ==
    {[kind |-> "raises"], [kind |-> "prose"], [kind |-> "list"],
     [kind |-> "broken"]}
    \cup {[kind |-> "object", data |-> o] : o \in JsonObjects}

Returned(v) == [kind |-> "return", value |-> v]
Raised(e) == [kind |-> "raise", exc |-> e]

\* data.get("answer", "").upper() == "NO_ANSWER", then
\* {"answer": data["answer"], "citation": data["citation"]}: what the two
\* statements do with a parsed object.
AnswerOfData(data) ==
    LET got == IF "answer" \in DOMAIN data THEN data["answer"] ELSE JsonStr("")
    IN  IF got.type # "string" THEN Raised("AttributeError")
        ELSE IF Upper(got.val) = "NO_ANSWER" THEN Returned(NoAnswerDict)
        ELSE IF "answer" \notin DOMAIN data \/ "citation" \notin DOMAIN data
             THEN Raised("KeyError")
        ELSE Returned([answer |-> data["answer"],
                       citation |-> data["citation"]])

\* The try block of extract_answer_groq holds the call, json.loads and both
\* statements: whatever raises there becomes the NO_ANSWER dict.
ExtractAnswerGroq(r) ==
    IF r.kind # "object" THEN Returned(NoAnswerDict)
    ELSE IF AnswerOfData(r.data).kind = "raise" THEN Returned(NoAnswerDict)
    ELSE AnswerOfData(r.data)

\* _do_chat: the fallback JSON when send_message raises or the text has no
\* leading brace, else the text.
DoChat(r) ==
    IF r.kind \in {"raises", "prose", "list"}
    THEN [kind |-> "object", data |-> NoAnswerDict]
    ELSE r

\* The try block of extract_answer_gemini holds _do_chat and json.loads
\* only; the two statements that read the object come after it.
ExtractAnswerGemini(r) ==
    LET raw == DoChat(r)
    IN  IF raw.kind = "broken" THEN Returned(NoAnswerDict)
        ELSE AnswerOfData(raw.data)

Backends == {"groq", "GROQ", "gemini", "Gemini", "openai"}

\* extract_answer_from_chunk is about to be called.
InitExtractor ==
    /\ entry = "extractor"
    /\ ThemeIdle
    /\ ExtractIdle
    /\ RetrieveIdle
    /\ IndexIdle
    /\ UuidIdle
    /\ StoreIdle
    /\ DeleteIdle
    /\ ChunkerIdle
    /\ backend \in Backends
    /\ groq_client \in {"Groq", "None"}
    /\ llm_reply = [kind |-> "none"]
    /\ ex_pc = "start"
    /\ ex_return = [kind |-> "none"]

\* extract_answer_from_chunk up to the provider call: the dispatch on the
\* lower-cased selector, and extract_answer_groq's test of its client.
ExtractorDispatch ==
    /\ ex_pc = "start"
    /\ IF Lower(backend) \notin {"groq", "gemini"}
       THEN /\ ex_pc' = "done"
            /\ ex_return' = Raised("ValueError")
       ELSE IF Lower(backend) = "groq" /\ groq_client = "None"
       THEN /\ ex_pc' = "done"
            /\ ex_return' = Raised("RuntimeError")
       ELSE /\ ex_pc' = "calling"
            /\ ex_return' = ex_return
    /\ UNCHANGED <<backend, groq_client, llm_reply>>
    /\ UNCHANGED <<themeVars, extractVars, retrVars, indexVars, uuidVars,
                   storeVars, deleteVars, chunkerVars>>

\* The provider call ends and the backend's function runs to its end.
ExtractorReply ==
    /\ ex_pc = "calling"
    /\ \E r \in LlmReplies :
        /\ llm_reply' = r
        /\ ex_return' = IF Lower(backend) = "groq"
                        THEN ExtractAnswerGroq(r)
                        ELSE ExtractAnswerGemini(r)
    /\ ex_pc' = "done"
    /\ UNCHANGED <<backend, groq_client>>
    /\ UNCHANGED <<themeVars, extractVars, retrVars, indexVars, uuidVars,
                   storeVars, deleteVars, chunkerVars>>

\* ---------------------------------------------------------------------
\* api/v1/docs.py: delete_document.  The handler is a plain def, which the
\* framework runs in a worker thread, so two calls can be in flight.
Docs == {"a", "b"}

DeleterStart == [pc |-> "start", doc_id |-> "", response |-> "none"]

\* Documents a and b have been uploaded: each has its row and its folder,
\* and its points unless its indexing failed.  Two delete_document calls are
\* about to be made.
InitDelete ==
    /\ entry = "delete"
    /\ ThemeIdle
    /\ ExtractIdle
    /\ RetrieveIdle
    /\ IndexIdle
    /\ UuidIdle
    /\ StoreIdle
    /\ LlmIdle
    /\ ChunkerIdle
    /\ documents = Docs
    /\ folders = Docs
    /\ indexed \in SUBSET Docs
    /\ deleters = [h \in 1..2 |-> DeleterStart]

\* step 1: the row is looked up; HTTP 404 without it.
DeleteLookup(h, doc_id) ==
    /\ deleters[h].pc = "start"
    /\ deleters' = [deleters EXCEPT ![h] =
                      IF doc_id \in documents
                      THEN [pc |-> "found", doc_id |-> doc_id,
                            response |-> "none"]
                      ELSE [pc |-> "done", doc_id |-> doc_id,
                            response |-> "HTTP 404"]]
    /\ UNCHANGED <<documents, folders, indexed>>
    /\ UNCHANGED <<themeVars, extractVars, retrVars, indexVars, uuidVars,
                   storeVars, llmVars, chunkerVars>>

\* step 2: shutil.rmtree of the folder if there is one; HTTP 500 when it
\* raises.
DeleteFolder(h, ok) ==
    /\ deleters[h].pc = "found"
    /\ IF ok
       THEN /\ folders' = folders \ {deleters[h].doc_id}
            /\ deleters' = [deleters EXCEPT ![h].pc = "files removed"]
       ELSE /\ deleters[h].doc_id \in folders
            /\ folders' = folders
            /\ deleters' = [deleters EXCEPT ![h].pc = "done",
                                            ![h].response = "HTTP 500"]
    /\ UNCHANGED <<documents, indexed>>
    /\ UNCHANGED <<themeVars, extractVars, retrVars, indexVars, uuidVars,
                   storeVars, llmVars, chunkerVars>>

\* step 3: db.delete(doc) and db.commit(); HTTP 500 when it raises.
DeleteRow(h, ok) ==
    /\ deleters[h].pc = "files removed"
    /\ IF ok
       THEN /\ documents' = documents \ {deleters[h].doc_id}
            /\ deleters' = [deleters EXCEPT ![h].pc = "row deleted"]
       ELSE /\ documents' = documents
            /\ deleters' = [deleters EXCEPT ![h].pc = "done",
                                            ![h].response = "HTTP 500"]
    /\ UNCHANGED <<folders, indexed>>
    /\ UNCHANGED <<themeVars, extractVars, retrVars, indexVars, uuidVars,
                   storeVars, llmVars, chunkerVars>>

\* step 4: the points whose payload doc_id is the document's are deleted
\* from the vector index; HTTP 500 when the client or the call raises.
DeletePoints(h, ok) ==
    /\ deleters[h].pc = "row deleted"
    /\ IF ok
       THEN /\ indexed' = indexed \ {deleters[h].doc_id}
            /\ deleters' = [deleters EXCEPT ![h].pc = "done",
                                            ![h].response = "HTTP 200"]
       ELSE /\ indexed' = indexed
            /\ deleters' = [deleters EXCEPT ![h].pc = "done",
                                            ![h].response = "HTTP 500"]
    /\ UNCHANGED <<documents, folders>>
    /\ UNCHANGED <<themeVars, extractVars, retrVars, indexVars, uuidVars,
                   storeVars, llmVars, chunkerVars>>

\* ---------------------------------------------------------------------
\* services/ingestion.py: chunk_text_into_paragraphs.  The text is given by
\* the number of words text.split() finds in it; a chunk is the slice
\* words[from:to] that " ".join makes its text of.
\* The next start without the overlap.
NextStart_NoOverlap(end) == end

\* start = end - WORD_OVERLAP
NextStart(end) == end - WORD_OVERLAP

\* chunk_text_into_paragraphs is about to be called on a text of up to
\* MaxWords words.
InitChunker ==
    /\ entry = "chunker"
    /\ ThemeIdle
    /\ ExtractIdle
    /\ RetrieveIdle
    /\ IndexIdle
    /\ UuidIdle
    /\ StoreIdle
    /\ LlmIdle
    /\ DeleteIdle
    /\ total_words \in 0..MaxWords
    /\ ck_pc = "start"
    /\ start = 0
    /\ para_chunks = <<>>

\* if not words: return []; if len(words) <= MAX_WORDS_PER_CHUNK: return the
\* one chunk of all words.
ChunkerShortText ==
    /\ ck_pc = "start"
    /\ total_words <= MAX_WORDS_PER_CHUNK
    /\ para_chunks' = IF total_words = 0 THEN <<>>
                      ELSE <<[from |-> 0, to |-> total_words]>>
    /\ ck_pc' = "returned"
    /\ UNCHANGED <<total_words, start>>
    /\ UNCHANGED <<themeVars, extractVars, retrVars, indexVars, uuidVars,
                   storeVars, llmVars, deleteVars>>

\* chunks = []; start = 0; total_words = len(words)
ChunkerEnterLoop ==
    /\ ck_pc = "start"
    /\ total_words > MAX_WORDS_PER_CHUNK
    /\ ck_pc' = "loop"
    /\ start' = 0
    /\ UNCHANGED <<total_words, para_chunks>>
    /\ UNCHANGED <<themeVars, extractVars, retrVars, indexVars, uuidVars,
                   storeVars, llmVars, deleteVars>>

\* One pass of "while start < total_words": the chunk words[start:end] is
\* appended; the loop is left at the last word, else start moves on.
ChunkerIterate ==
    /\ ck_pc = "loop"
    /\ start < total_words
    /\ LET end == Min(start + MAX_WORDS_PER_CHUNK, total_words)
       IN /\ para_chunks' = Append(para_chunks, [from |-> start, to |-> end])
          /\ IF end = total_words
             THEN ck_pc' = "returned" /\ start' = start
             ELSE ck_pc' = "loop" /\ start' = NextStart(end)
    /\ UNCHANGED total_words
    /\ UNCHANGED <<themeVars, extractVars, retrVars, indexVars, uuidVars,
                   storeVars, llmVars, deleteVars>>

NextCluster == CallClusterSnippets
NextTheme == IdentifyStart \/ SummarizeCall \/ SummarizeReturn

SpecCluster == InitCluster /\ [][NextCluster]_vars
SpecTheme == InitTheme /\ [][NextTheme]_vars

NextExtract ==
    \/ RejectNoDocuments
    \/ \E d \in 1..Len(doc_ids) : CallRetrieve(d)
    \/ \E d \in 1..Len(doc_ids) : StartDoc(d)
    \/ \E d \in 1..Len(doc_ids) : \E c \in 1..Len(slots[d]) : TaskEnds(d, c)
    \/ \E d \in 1..Len(doc_ids) : ResumeDoc(d)
    \/ Respond

SpecExtract == InitExtract /\ [][NextExtract]_vars

NextRetrieve == RetrieveEmbed \/ RetrieveSearch
SpecRetrieve == InitRetrieve /\ [][NextRetrieve]_vars

NextIndex == IndexNoChunks \/ IndexSetUp \/ IndexChunk
SpecIndex == InitIndex /\ [][NextIndex]_vars

NextUuid == \E i \in 1..2 : CallDeterministicUuid(i)
SpecUuid == InitUuid /\ [][NextUuid]_vars

NextStore ==
    \/ \E w \in 1..2 : WriterNoChunks(w)
    \/ \E w \in 1..2 : WriterGetCollections(w)
    \/ \E w \in 1..2 : WriterCreateCollection(w)
    \/ \E w \in 1..2 : WriterChunk(w)
    \/ CallEnsureCollectionExists
SpecStore == InitStore /\ [][NextStore]_vars

NextExtractor == ExtractorDispatch \/ ExtractorReply
SpecExtractor == InitExtractor /\ [][NextExtractor]_vars

NextDelete ==
    \/ \E h \in 1..2 : \E doc_id \in Docs : DeleteLookup(h, doc_id)
    \/ \E h \in 1..2 : \E ok \in BOOLEAN : DeleteFolder(h, ok)
    \/ \E h \in 1..2 : \E ok \in BOOLEAN : DeleteRow(h, ok)
    \/ \E h \in 1..2 : \E ok \in BOOLEAN : DeletePoints(h, ok)
SpecDelete == InitDelete /\ [][NextDelete]_vars

\* The function runs on while it has a step to take.
NextChunker == ChunkerShortText \/ ChunkerEnterLoop \/ ChunkerIterate
SpecChunker == InitChunker /\ [][NextChunker]_vars /\ WF_vars(NextChunker)

\* ======================================================== properties
\* Vocabulary of the properties below, read off the state and the call record.

\* The citations of all input snippets, in input order.
InputCitations == [p \in 1..Len(snippets) |-> snippets[p].citation]

\* Indices of the snippets with non-blank text and a successful embedding.
Embeddable ==
    {i \in 0..(Len(snippets) - 1) :
        /\ snippets[i + 1].text \notin {"", " "}
        /\ i \notin embed_failed}

\* The labels of the returned mapping and the indices it holds.
Labels == DOMAIN clusters_map
IndexSet(l) == Range(clusters_map[l])
CitationsOfCluster(l) ==
    [p \in 1..Len(clusters_map[l]) |-> snippets[clusters_map[l][p] + 1].citation]
SnippetsOfCluster(l) ==
    [p \in 1..Len(clusters_map[l]) |-> snippets[clusters_map[l][p] + 1]]

\* The index lists are non-empty, hold no index twice, are pairwise disjoint
\* and together hold exactly the embeddable indices.
PartitionOfEmbeddable ==
    /\ \A l \in Labels :
         /\ Len(clusters_map[l]) > 0
         /\ Cardinality(IndexSet(l)) = Len(clusters_map[l])
    /\ \A l1, l2 \in Labels : l1 # l2 => IndexSet(l1) \cap IndexSet(l2) = {}
    /\ UNION {IndexSet(l) : l \in Labels} = Embeddable

\* ------------------------------------------------------------------ C1
\* C1: identify_and_summarize_themes returns the empty list for an empty
\* input and between 1 and 4 themes for a non-empty one, whichever embedding
\* calls, clustering run and summarizer calls fail.
C1_ThemeCountBound ==
    pc = "done" =>
        IF Len(snippets) = 0
        THEN themes = <<>>
        ELSE Len(themes) >= 1 /\ Len(themes) <= 4

\* Four themes out of 15 snippets (15 // 3 = 5 is clamped to 4), with a failed
\* embedding and a raising summarizer on the way.
C1_Witness ==
    /\ pc = "done"
    /\ Len(snippets) >= 15
    /\ Len(themes) = 4
    /\ embed_failed # {}
    /\ \E i \in 1..Len(summ_calls) : summ_calls[i].status = "raised"

\* ------------------------------------------------------------------ C2
\* C2: if the embedding call fails for every snippet of a non-empty input, the
\* result is exactly one theme with an empty summary whose citations are the
\* citations of all input snippets in input order, and the summarizer is never
\* called.
C2_AllEmbeddingsFail ==
    (/\ pc = "done"
     /\ Len(snippets) > 0
     /\ embed_failed = 0..(Len(snippets) - 1))
    => /\ Len(themes) = 1
       /\ themes[1].summary = ""
       /\ themes[1].citations = InputCitations
       /\ summ_calls = <<>>

C2_Witness ==
    /\ pc = "done"
    /\ Len(snippets) >= 3
    /\ embed_failed = 0..(Len(snippets) - 1)
    /\ Len(themes) = 1

\* ------------------------------------------------------------------ C3
\* C3: when the summarizer call for the cluster with label L raises, the theme
\* appended for that call is named "Theme {L+1}", has an empty summary and the
\* citations of that cluster's members; no cluster is dropped: once the
\* summarisation loop has run, there are as many themes as clusters.
C3_SummarizerFailureFallback ==
    /\ \A i \in 1..Len(summ_calls) : \A l \in Labels :
         (/\ summ_calls[i].status = "raised"
          /\ summ_calls[i].snippets = SnippetsOfCluster(l))
         => /\ i <= Len(themes)
            /\ themes[i] = [theme_name |-> <<"Theme", l + 1>>,
                            summary |-> "",
                            citations |-> CitationsOfCluster(l)]
    /\ (pc = "done" /\ Labels # {}) => Len(themes) = Cardinality(Labels)

\* Three clusters, the summarizer raised for the second and answered for the
\* other two.
C3_Witness ==
    /\ pc = "done"
    /\ Cardinality(Labels) = 3
    /\ summ_calls[1].status = "full"
    /\ summ_calls[2].status = "raised"
    /\ summ_calls[3].status = "full"

\* ------------------------------------------------------------------ C4
\* C4: the summarizer is called once per cluster, one call at a time, in
\* ascending label order with theme_id = label + 1, and the i-th theme of the
\* result is the theme of the i-th smallest label.
C4_AscendingLabelOrder ==
    LET asc == Sorted(Labels)
    IN /\ Len(summ_calls) <= Len(asc)
       /\ \A i \in 1..Len(summ_calls) :
            /\ summ_calls[i].theme_id = asc[i] + 1
            /\ summ_calls[i].snippets = SnippetsOfCluster(asc[i])
            \* only the latest call can be outstanding
            /\ summ_calls[i].status = "pending" => i = Len(summ_calls)
            \* the i-th theme is the one of the i-th call
            /\ summ_calls[i].status # "pending" =>
                 /\ i <= Len(themes)
                 /\ summ_calls[i].status \in {"raised", "unparsed"} =>
                        themes[i].theme_name = <<"Theme", asc[i] + 1>>
                 /\ summ_calls[i].status \in {"raised", "unparsed", "full"} =>
                        themes[i].citations = CitationsOfCluster(asc[i])
       /\ (pc = "done" /\ Labels # {}) =>
            /\ Len(summ_calls) = Len(asc)
            /\ Len(themes) = Len(asc)

\* Three clusters summarised, the labels not assigned in input order.
C4_Witness ==
    /\ pc = "done"
    /\ Len(summ_calls) = 3
    /\ Labels = {0, 1, 2}
    /\ clusters_map[0][1] > clusters_map[1][1]

\* ------------------------------------------------------------------ C5
\* C5 as claimed: with m >= 1 embeddable snippets, cluster_snippets(snippets,
\* n) returns min(n, m) index lists (one when min(n, m) <= 1), non-empty,
\* pairwise disjoint and with union the embeddable indices.
C5_Claimed_MinNMLists ==
    (pc = "returned" /\ Cardinality(Embeddable) >= 1) =>
        /\ Cardinality(Labels) =
              Max(1, Min(n_clusters, Cardinality(Embeddable)))
        /\ PartitionOfEmbeddable

\* C5 as amended: the lists are always a partition of the embeddable indices;
\* there are min(n, m) of them when the clustering run does not raise, and one
\* when it raises or when min(n, m) <= 1.
C5_PartitionOfValidIndices ==
    (pc = "returned" /\ Cardinality(Embeddable) >= 1) =>
        /\ Cardinality(Labels) =
              IF fit_raised THEN 1
              ELSE Max(1, Min(n_clusters, Cardinality(Embeddable)))
        /\ PartitionOfEmbeddable

\* Three lists over four embeddable snippets of a five-snippet input.
C5_Witness ==
    /\ pc = "returned"
    /\ Len(snippets) = 5
    /\ Cardinality(Embeddable) = 4
    /\ n_clusters = 3
    /\ Cardinality(Labels) = 3

\* ------------------------------------------------------------------ C6
\* C6: with n_clusters <= 1, or with a single embeddable snippet, and at least
\* one embeddable snippet, cluster_snippets returns exactly {0: the embeddable
\* indices in ascending order} and does not run the clustering algorithm.
C6_SingleClusterShortcut ==
    (/\ pc = "returned"
     /\ Cardinality(Embeddable) >= 1
     /\ (n_clusters <= 1 \/ Cardinality(Embeddable) = 1))
    => /\ clusters_map = (0 :> Sorted(Embeddable))
       /\ fit_calls = <<>>

\* One embeddable snippet among several, three clusters requested.
C6_Witness ==
    /\ pc = "returned"
    /\ n_clusters = 3
    /\ Len(snippets) >= 3
    /\ Cardinality(Embeddable) = 1
    /\ Labels = {0}

\* ------------------------------------------------------------------ C7
\* C7: cluster_snippets never embeds a snippet whose text is empty or
\* whitespace-only, and it returns the empty mapping exactly when no snippet
\* has both a non-blank text and a successful embedding.
C7_BlankSkippedEmptyMapping ==
    /\ \A p \in 1..Len(embed_calls) :
         snippets[embed_calls[p] + 1].text \notin {"", " "}
    /\ pc = "returned" => ((Labels = {}) <=> (Embeddable = {}))

\* Empty mapping from an input with a whitespace-only snippet and a snippet
\* whose embedding failed.
C7_Witness ==
    /\ pc = "returned"
    /\ Labels = {}
    /\ \E p \in 1..Len(snippets) : snippets[p].text = " "
    /\ embed_failed # {}

\* ------------------------------------------------------------------ C8
\* C8: if the clustering algorithm raises, cluster_snippets returns the single
\* cluster {0: all successfully embedded indices} and
\* identify_and_summarize_themes returns exactly one theme.
C8_ClusteringFailureSingleCluster ==
    fit_raised =>
        /\ clusters_map = (0 :> Sorted(Embeddable))
        /\ pc = "done" => Len(themes) = 1

\* The clustering raised on an input where an embedding had failed too.
C8_Witness ==
    /\ pc = "done"
    /\ fit_raised
    /\ embed_failed # {}
    /\ Len(themes) = 1

\* ------------------------------------------------------------------ C9
\* C9: every theme returned has as citations exactly the citations of the
\* snippets of its cluster; the citations of the input being pairwise
\* distinct, the themes' citation sets are non-empty, pairwise disjoint and
\* together cover the citations of all input snippets.
C9_Claimed_ThemeCitations ==
    (pc = "done" /\ Labels # {}) =>
        LET asc == Sorted(Labels)
        IN /\ \A i \in 1..Len(themes) :
                /\ Range(themes[i].citations) = Range(CitationsOfCluster(asc[i]))
                /\ themes[i].citations # <<>>
           /\ \A i, j \in 1..Len(themes) :
                i # j => Range(themes[i].citations)
                            \cap Range(themes[j].citations) = {}
           /\ UNION {Range(themes[i].citations) : i \in 1..Len(themes)}
                 = Range(InputCitations)

\* ----------------------------------------------------------------- C10
\* The snippets the stage produced for the d-th entry of doc_ids (on the
\* theme path the run its coroutine appended to the pool), and how many of
\* them carry the citation of its c-th chunk.
RECURSIVE AppendedBefore(_)
AppendedBefore(i) ==
    IF i <= 1 THEN 0 ELSE appends[i - 1].n + AppendedBefore(i - 1)
RunOf(i) ==
    SubSeq(all_snippets, AppendedBefore(i) + 1, AppendedBefore(i) + appends[i].n)
OutputOfDoc(d) ==
    IF path = "query"
    THEN doc_result[d].answers
    ELSE IF \E i \in 1..Len(appends) : appends[i].d = d
    THEN RunOf(CHOOSE i \in 1..Len(appends) : appends[i].d = d)
    ELSE <<>>
TimesIncluded(d, c) ==
    Cardinality({p \in 1..Len(OutputOfDoc(d)) :
                    OutputOfDoc(d)[p].citation = ChunkCitation(doc_ids[d], c)})

\* C10: on the query path and on the theme path, a chunk whose extracted
\* answer is the sentinel "NO_ANSWER" in any letter case yields no snippet, and
\* every extractor result with a non-empty, non-sentinel answer yields exactly
\* one snippet, with that answer as its text.
C10_SentinelFiltered ==
    \A d \in 1..Len(doc_ids) :
        doc_pc[d] = "done" =>
            /\ \A p \in 1..Len(OutputOfDoc(d)) :
                 OutputOfDoc(d)[p].text \notin {"NO_ANSWER", "no_answer", ""}
            /\ \A c \in 1..Len(slots[d]) :
                 /\ slots[d][c].reply.answer \in {"NO_ANSWER", "no_answer"}
                      => TimesIncluded(d, c) = 0
                 /\ (/\ slots[d][c].state = "returned"
                     /\ slots[d][c].answer \notin {"NO_ANSWER", "no_answer", ""})
                      => /\ TimesIncluded(d, c) = 1
                         /\ \E p \in 1..Len(OutputOfDoc(d)) :
                              /\ OutputOfDoc(d)[p].citation
                                    = ChunkCitation(doc_ids[d], c)
                              /\ OutputOfDoc(d)[p].text = slots[d][c].answer

\* The example of the specification on the theme path: three chunks answered
\* "text A", the sentinel (here in lower case) and "text A" give two snippets.
C10_Witness ==
    /\ path = "theme"
    /\ stage = "responded"
    /\ Len(doc_ids) = 2
    /\ Len(slots[2]) = 3
    /\ slots[2][1].reply.answer = "text A"
    /\ slots[2][2].reply.answer = "no_answer"
    /\ slots[2][3].reply.answer = "text A"
    /\ Len(OutputOfDoc(2)) = 2

\* ----------------------------------------------------------------- C11
\* The chunks of document d whose invocation raised, and those whose
\* invocation returned a non-empty answer other than the sentinel.
RaisedChunks(d) == {c \in 1..Len(slots[d]) : slots[d][c].state = "raised"}
GenuineChunks(d) ==
    {c \in 1..Len(slots[d]) :
        /\ slots[d][c].state = "returned"
        /\ slots[d][c].answer \notin {"", "NO_ANSWER"}}

\* C11: whichever extraction invocations raise, the stage ends with a regular
\* response and the output of every document holds exactly the snippets of
\* its invocations that returned a genuine answer: one snippet per such
\* invocation, with the answer and citation it returned, none for a raising
\* invocation, and nothing else.
C11_FailureIsolation ==
    /\ \A d \in 1..Len(doc_ids) :
         doc_pc[d] = "done" =>
            /\ Len(OutputOfDoc(d)) = Cardinality(GenuineChunks(d))
            /\ \A c \in RaisedChunks(d) : TimesIncluded(d, c) = 0
            /\ \A c \in GenuineChunks(d) :
                 /\ TimesIncluded(d, c) = 1
                 /\ \E p \in 1..Len(OutputOfDoc(d)) :
                      /\ OutputOfDoc(d)[p].citation = slots[d][c].citation
                      /\ OutputOfDoc(d)[p].text = slots[d][c].answer
    /\ (stage = "responded" /\ doc_ids # <<>>) =>
         response.kind \in {"QueryResponse", "ThemeResponse",
                            "identify_and_summarize_themes"}

\* A query answered although the first of three invocations of a document
\* raised: the two siblings after it are both in the answer.
C11_Witness ==
    /\ path = "query"
    /\ stage = "responded"
    /\ \E d \in 1..Len(doc_ids) :
         /\ Len(slots[d]) = 3
         /\ RaisedChunks(d) = {1}
         /\ GenuineChunks(d) = {2, 3}
         /\ \E i \in 1..Len(response.individual_answers) :
              /\ response.individual_answers[i].doc_id = doc_ids[d]
              /\ Len(response.individual_answers[i].answers) = 2

\* ----------------------------------------------------------------- C12
\* The chunk (in issue order) the p-th output snippet of document d was
\* extracted from.
ChunkOf(d, p) ==
    CHOOSE c \in 1..Len(slots[d]) :
        OutputOfDoc(d)[p].citation = ChunkCitation(doc_ids[d], c)

\* C12: the snippets of one document are in the order of the chunks they were
\* extracted from, whatever the order in which the extraction tasks ended and
\* whichever invocations in between were dropped.
C12_IssueOrder ==
    \A d \in 1..Len(doc_ids) :
        doc_pc[d] = "done" =>
            \A p, q \in 1..Len(OutputOfDoc(d)) :
                p < q => ChunkOf(d, p) < ChunkOf(d, q)

\* The tasks of a document ended out of issue order, the second of its three
\* invocations was dropped, and the snippets of the first and the third are
\* returned in that order.
C12_Witness ==
    \E d \in 1..Len(doc_ids) :
        /\ doc_pc[d] = "done"
        /\ overtaken[d]
        /\ Len(slots[d]) = 3
        /\ GenuineChunks(d) = {1, 3}
        /\ Len(OutputOfDoc(d)) = 2
        /\ ChunkOf(d, 1) = 1
        /\ ChunkOf(d, 2) = 3

\* ----------------------------------------------------------------- C13
\* The positions of doc_ids whose document gave at least one invocation with
\* a non-empty, non-sentinel answer.
Yielding == {d \in 1..Len(doc_ids) : GenuineChunks(d) # {}}

\* C13: the individual_answers of a query response hold one DocumentAnswers
\* entry for every position of doc_ids whose document yielded a genuine
\* snippet and none for any other position, in the order of doc_ids; every
\* entry carries the doc_id of its position and that document's snippets.
C13_DocumentAnswersIffSnippet ==
    (path = "query" /\ stage = "responded" /\ doc_ids # <<>>) =>
        LET entries == response.individual_answers
            asc == Sorted(Yielding)
        IN /\ Len(entries) = Cardinality(Yielding)
           /\ \A i \in 1..Len(entries) :
                /\ entries[i].doc_id = doc_ids[asc[i]]
                /\ entries[i].answers = OutputOfDoc(asc[i])
                /\ entries[i].answers # <<>>

\* A request naming the same document twice: the first occurrence has chunks
\* but no genuine answer, the second has one, and the response has the one
\* entry of the second.
C13_Witness ==
    /\ path = "query"
    /\ stage = "responded"
    /\ Len(doc_ids) = 2
    /\ doc_ids[1] = doc_ids[2]
    /\ Len(slots[1]) > 0
    /\ Yielding = {2}
    /\ Len(response.individual_answers) = 1

\* ----------------------------------------------------------------- C14
\* C14: retrieve_top_k_chunks never raises; when the query-embedding step
\* raises it returns the empty list without having called the search, and when
\* the search raises it returns the empty list.
C14_RetrievalNeverRaises ==
    /\ rt_return.kind # "raised"
    /\ rt_pc = "returned" =>
         /\ rt_return.kind = "list"
         /\ query_embedding.kind = "raise" =>
              rt_return.chunks = <<>> /\ search_calls = <<>>
         /\ (\E i \in 1..Len(search_calls) : search_calls[i].raised) =>
              rt_return.chunks = <<>>

\* The embedding step succeeded and the one search that was made raised.
C14_Witness ==
    /\ rt_pc = "returned"
    /\ query_embedding.kind = "value"
    /\ Len(search_calls) = 1
    /\ search_calls[1].raised
    /\ rt_return = [kind |-> "list", chunks |-> <<>>]

\* ----------------------------------------------------------------- C15
ChunkKeys == {"doc_id", "chunk_text", "page_num", "paragraph_index"}

\* C15: after a successful search the returned list has one record per hit,
\* in hit order, each with exactly the four chunk keys; a key the hit's payload
\* holds has the payload's value, except that a missing or empty doc_id is
\* replaced by the requested doc_id.
C15_OneRecordPerHit ==
    (/\ rt_pc = "returned"
     /\ Len(search_calls) = 1
     /\ ~search_calls[1].raised) =>
        /\ rt_return.kind = "list"
        /\ Len(rt_return.chunks) = Len(search_result)
        /\ \A i \in 1..Len(search_result) :
             LET chunk == rt_return.chunks[i]
                 held == IF search_result[i].has_payload
                         THEN DOMAIN search_result[i].payload ELSE {}
             IN /\ DOMAIN chunk = ChunkKeys
                /\ \A k \in (held \cap ChunkKeys) \ {"doc_id"} :
                     chunk[k] = search_result[i].payload[k]
                /\ IF "doc_id" \in held /\ search_result[i].payload["doc_id"] # ""
                   THEN chunk.doc_id = search_result[i].payload["doc_id"]
                   ELSE chunk.doc_id = rt_doc_id

\* Two hits: the first with an empty doc_id and a key that is not a chunk
\* key, the second with no payload; both records carry the requested doc_id.
C15_Witness ==
    /\ rt_pc = "returned"
    /\ Len(search_result) = 2
    /\ search_result[1].has_payload
    /\ DOMAIN search_result[1].payload = ChunkKeys \cup {"source"}
    /\ search_result[1].payload["doc_id"] = ""
    /\ ~search_result[2].has_payload
    /\ Len(rt_return.chunks) = 2
    /\ rt_return.chunks[1].doc_id = rt_doc_id
    /\ rt_return.chunks[1].chunk_text = "A"
    /\ rt_return.chunks[2].doc_id = rt_doc_id

\* ----------------------------------------------------------------- C16
\* The embedding call of a chunk returned VECTOR_DIMENSION numbers, as a flat
\* list or as a batch of one such list.
GoodEmbedding(reply) ==
    /\ reply.kind = "value"
    /\ reply.value \in {Flat(VECTOR_DIMENSION), Batch(1, VECTOR_DIMENSION)}

\* How often chunk i (1-based) was passed to the store, and how often it is in
\* the buffer.
TimesUpserted(i) ==
    Cardinality({jp \in {<<j, p>> : j \in 1..Len(upsert_calls),
                                    p \in 1..Len(chunks)} :
                    /\ jp[2] <= Len(upsert_calls[jp[1]].points)
                    /\ upsert_calls[jp[1]].points[jp[2]].payload = chunks[i]})
TimesBuffered(i) ==
    Cardinality({p \in 1..Len(buffer_points) :
                    buffer_points[p].payload = chunks[i]})

\* C16: every point of every upsert call has a flat vector of exactly
\* VECTOR_DIMENSION components; a chunk whose embedding call raised or gave
\* any other length is in no upsert call, and the function raises only before
\* the first chunk is looked at.
C16_DimensionInvariant ==
    /\ \A j \in 1..Len(upsert_calls) :
         \A p \in 1..Len(upsert_calls[j].points) :
            upsert_calls[j].points[p].vector = Flat(VECTOR_DIMENSION)
    /\ \A i \in 1..Len(vectors) :
         ~GoodEmbedding(vectors[i]) => TimesUpserted(i) = 0
    /\ ix_return = "raised" => vectors = <<>>

\* A call that dropped one chunk for a raising embedding and one for a
\* vector one component short, and passed a chunk whose vector came as a
\* singleton batch.
C16_Witness ==
    /\ ix_pc = "returned"
    /\ ix_return = "None"
    /\ \E i \in 1..Len(vectors) : vectors[i].kind = "raise"
    /\ \E i \in 1..Len(vectors) :
         /\ vectors[i].kind = "value"
         /\ vectors[i].value = Flat(VECTOR_DIMENSION - 1)
    /\ \E i \in 1..Len(vectors) :
         /\ vectors[i].kind = "value"
         /\ vectors[i].value = Batch(1, VECTOR_DIMENSION)
         /\ TimesUpserted(i) = 1

\* ----------------------------------------------------------------- C17
\* C17 as claimed: when index_chunks_in_vector_store returns, every chunk with
\* a successful VECTOR_DIMENSION-dimensional embedding has been passed to the
\* store in exactly one upsert call, wherever the dropped chunks are.
C17_Claimed_EveryGoodChunkUpserted ==
    (ix_pc = "returned" /\ ix_return = "None") =>
        \A i \in 1..Len(vectors) :
            GoodEmbedding(vectors[i]) => TimesUpserted(i) = 1

\* ----------------------------------------------------------------- C18
\* C18: when all n >= 1 chunks get a VECTOR_DIMENSION-dimensional embedding and
\* batch_size is b >= 1, the function makes ceil(n / b) upsert calls, each
\* with 1 to b points and all but the last with b, and the points of the calls
\* one after the other are the chunks in input order.
C18_BatchCount ==
    (/\ ix_pc = "returned"
     /\ ix_return = "None"
     /\ Len(chunks) >= 1
     /\ \A i \in 1..Len(vectors) : GoodEmbedding(vectors[i])) =>
        LET n == Len(chunks)
            b == batch_size
            k == Len(upsert_calls)
        IN /\ k = (n + b - 1) \div b
           /\ \A j \in 1..k :
                /\ Len(upsert_calls[j].points) >= 1
                /\ Len(upsert_calls[j].points) <= b
                /\ j < k => Len(upsert_calls[j].points) = b
                /\ \A p \in 1..Len(upsert_calls[j].points) :
                     /\ (j - 1) * b + p <= n
                     /\ upsert_calls[j].points[p].payload
                           = chunks[(j - 1) * b + p]
           /\ (k - 1) * b + Len(upsert_calls[k].points) = n

\* Four chunks in batches of three: a call with three points, then one with
\* the last point.
C18_Witness ==
    /\ ix_pc = "returned"
    /\ Len(chunks) = 4
    /\ batch_size = 3
    /\ \A i \in 1..Len(vectors) : GoodEmbedding(vectors[i])
    /\ Len(upsert_calls) = 2
    /\ Len(upsert_calls[1].points) = 3
    /\ Len(upsert_calls[2].points) = 1

C20_UuidFunctionOfTriple ==
    (uuids[1].called /\ uuids[2].called) =>
        IF triples[1] = triples[2]
        THEN uuids[1].key = uuids[2].key /\ uuids[1].id = uuids[2].id
        ELSE uuids[1].key # uuids[2].key /\ uuids[1].id # uuids[2].id

\* Two triples that would read the same without the separators: ("a1", 1, 1)
\* and ("a", 11, 1); the ids differ.
C20_Witness ==
    /\ uuids[1].called
    /\ uuids[2].called
    /\ triples[1] = [doc_id |-> <<"a", "1">>, page_num |-> 1, para_idx |-> 1]
    /\ triples[2] = [doc_id |-> <<"a">>, page_num |-> 11, para_idx |-> 1]
    /\ uuids[1].id # uuids[2].id

\* ----------------------------------------------------------------- C21
\* The triples of the chunk list, the last chunk of the list with a given
\* triple, and the stored points of the document the writers index.
TripleOf(chunk) ==
    [doc_id |-> chunk.doc_id, page_num |-> chunk.page_num,
     paragraph_index |-> chunk.paragraph_index]
TriplesOfChunks == {TripleOf(chunks[i]) : i \in 1..Len(chunks)}
LastChunkOf(t) ==
    LET last == CHOOSE i \in 1..Len(chunks) :
                   /\ TripleOf(chunks[i]) = t
                   /\ \A j \in (i + 1)..Len(chunks) : TripleOf(chunks[j]) # t
    IN chunks[last]
PointsOfDocument == {q \in collection.points : q.payload.doc_id = <<"d">>}

\* A writer has gone through the chunk list and no other writer is half-way.
RunsComplete ==
    /\ \E w \in 1..2 : writers[w].pc = "returned"
    /\ \A w \in 1..2 : writers[w].pc = "returned" \/ writers[w].idx = 0

\* C21: with every call succeeding, after one run of
\* index_chunks_in_vector_store over a chunk list and after two runs over it,
\* one after the other or interleaved, the store holds for the document
\* exactly one point per distinct (doc_id, page_num, paragraph_index) of the
\* list, the same in both cases: the point of the last chunk with the triple.
C21_ReindexIdempotent ==
    (RunsComplete /\ all_ok /\ chunks # <<>>) =>
        /\ Cardinality(PointsOfDocument) = Cardinality(TriplesOfChunks)
        /\ \A t \in TriplesOfChunks :
             \E q \in PointsOfDocument :
                /\ q.payload = LastChunkOf(t)
                /\ q.vector = Flat(VECTOR_DIMENSION)

\* Both writers have indexed a list of three chunks with two triples, in
\* batches of two: two points of the document are stored.
C21_Witness ==
    /\ \A w \in 1..2 : writers[w].pc = "returned"
    /\ all_ok
    /\ Len(chunks) = 3
    /\ batch_size = 2
    /\ Cardinality(TriplesOfChunks) = 2
    /\ Cardinality(PointsOfDocument) = 2

\* ----------------------------------------------------------------- C22
StoredIds == {q.id : q \in collection.points}

FailedOrMalformed ==
    \/ llm_reply.kind \in {"raises", "prose", "list", "broken"}
    \/ /\ llm_reply.kind = "object"
       /\ \/ "answer" \notin DOMAIN llm_reply.data
          \/ "citation" \notin DOMAIN llm_reply.data

\* C23 as claimed: whenever the underlying call of extract_answer_from_chunk
\* fails or its response is malformed, the function returns the NO_ANSWER
\* dict; it never ends with an exception.
C23_Claimed_FailureBecomesNoAnswer ==
    (ex_pc = "done" /\ FailedOrMalformed)
        => ex_return = Returned(NoAnswerDict)

\* C24 as claimed: a request served under a configuration error (unknown
\* backend selector, missing provider client or credentials) ends in an
\* error; it is never answered with an empty answers list or an empty
\* themes list.
C24_Claimed_ConfigErrorSurfaces ==
    (stage = "responded" /\ config # "ok" /\ doc_ids # <<>>)
        => response.kind \notin {"QueryResponse", "ThemeResponse"}

\* Two units were running concurrently: a document's coroutine with chunks
\* is suspended at its gather until every coroutine has started, and its
\* extraction tasks run while it is suspended.
Concurrent(u, v) ==
    /\ u # v
    /\ hits[u.d] > 0
    /\ hits[v.d] > 0

\* C25 as claimed: on the query path and on the theme path, no two
\* concurrently running units ever write to the same mutable object; each
\* writes to its own slot of a results collection only.
C25_Claimed_OwnSlotOnly ==
    \A w1 \in writes : \A w2 \in writes :
        Concurrent(w1.unit, w2.unit) => w1.object # w2.object

\* C26 as claimed: the embedding and search calls are suspension points, so
\* while the retrieval of one document is outstanding an extraction task
\* already scheduled for another document can still end.
C26_Claimed_RetrievalSuspends ==
    \A d \in 1..Len(doc_ids) : \A e \in 1..Len(doc_ids) :
        \A c \in 1..Len(slots[e]) :
            (doc_pc[d] = "retrieving" /\ doc_pc[e] = "gather"
                /\ slots[e][c].state = "pending")
                => ENABLED TaskEnds(e, c)

\* ----------------------------------------------------------------- C27
\* C27: a query or theme request is answered with HTTP 400 exactly when its
\* resolved doc_ids list is empty; a request over a non-empty list for which
\* every retrieval and every extraction failed or yielded nothing is
\* answered with a response whose answers list (query) or themes list
\* (theme) is empty, not with an error.
C27_RejectedIffNoDocuments ==
    stage = "responded" =>
        /\ response.kind = "HTTP 400" <=> doc_ids = <<>>
        /\ (doc_ids # <<>> /\ Yielding = {}) =>
              response = IF path = "query"
                         THEN [kind |-> "QueryResponse",
                               individual_answers |-> <<>>]
                         ELSE [kind |-> "ThemeResponse", themes |-> <<>>]

\* A query over two documents has been answered with an empty list: the
\* retrieval of the first gave no chunk, one extraction of the second raised
\* and another returned the sentinel.
C27_Witness ==
    /\ stage = "responded"
    /\ path = "query"
    /\ Len(doc_ids) = 2
    /\ hits[1] = 0
    /\ hits[2] = 2
    /\ slots[2][1].state = "raised"
    /\ slots[2][2].answer = "NO_ANSWER"
    /\ response.kind = "QueryResponse"
    /\ response.individual_answers = <<>>

\* ----------------------------------------------------------------- C28
\* No delete_document call is under way.
NoDeleteInFlight ==
    \A h \in 1..Len(deleters) : deleters[h].pc \in {"start", "done"}

\* C28 as claimed: once the delete_document calls have ended, whether or
\* not a deletion step failed, a doc_id without a row in the documents
\* table has no points left in the vector index.
C28_Claimed_NoRecordNoPoints ==
    NoDeleteInFlight => \A doc_id \in indexed : doc_id \in documents

\* ----------------------------------------------------------------- C29
\* The genuine snippets of the d-th entry of doc_ids, in chunk order, tagged
\* with the doc_id of that entry.
GenuineSnippets(d) ==
    LET asc == Sorted(GenuineChunks(d))
    IN [p \in 1..Len(asc) |->
          [doc_id |-> doc_ids[d], text |-> slots[d][asc[p]].answer,
           citation |-> slots[d][asc[p]].citation]]

\* The entries of doc_ids whose coroutine has ended with a genuine snippet.
DoneYielding == {d \in Yielding : doc_pc[d] = "done"}

\* C29 (amended): on the theme path, under every interleaving, the shared
\* pool is a sequence of runs, one for every entry of doc_ids whose
\* coroutine has ended with a genuine snippet and none for any other; the
\* run of an entry is contiguous and holds exactly the genuine snippets of
\* that entry's extractions, in chunk order, each tagged with the entry's
\* doc_id.  A doc_id listed twice has one run per occurrence.
C29_OneRunPerEntry ==
    path = "theme" =>
        /\ \A i, j \in 1..Len(appends) : i # j => appends[i].d # appends[j].d
        /\ {appends[i].d : i \in 1..Len(appends)} = DoneYielding
        /\ Len(all_snippets) = AppendedBefore(Len(appends) + 1)
        /\ \A i \in 1..Len(appends) : RunOf(i) = GenuineSnippets(appends[i].d)

\* A theme request over two documents has been answered; the tasks of the
\* first ended out of issue order and after the second document's, so the
\* pool holds the run of the second before the two snippets of the first.
C29_Witness ==
    /\ path = "theme"
    /\ stage = "responded"
    /\ Len(doc_ids) = 2
    /\ doc_ids[1] # doc_ids[2]
    /\ overtaken[1]
    /\ Len(appends) = 2
    /\ appends[1].d = 2
    /\ appends[2] = [d |-> 1, n |-> 2]
    /\ Len(all_snippets) = 3

\* C29 as claimed: the snippets in the pool that carry the doc_id of a
\* requested document are that document's genuine snippets, none lost and
\* none duplicated, as one contiguous run in chunk order.
C29_Claimed_OneRunPerDocument ==
    (path = "theme" /\ stage = "responded") =>
        \A d \in 1..Len(doc_ids) :
            LET at == {p \in 1..Len(all_snippets) :
                          all_snippets[p].doc_id = doc_ids[d]}
            IN /\ \A p, q \in at : \A o \in p..q : o \in at
               /\ \A p, q \in at :
                    p < q => all_snippets[p].citation[4]
                                < all_snippets[q].citation[4]
               /\ \A c \in GenuineChunks(d) :
                    \E p \in at : all_snippets[p] = GenuineSnippets(d)[
                        Cardinality({b \in GenuineChunks(d) : b <= c})]
               /\ \A p \in at :
                    \E e \in 1..Len(doc_ids) :
                        /\ doc_ids[e] = doc_ids[d]
                        /\ all_snippets[p] \in Range(GenuineSnippets(e))

\* ----------------------------------------------------------------- C30
\* The chunks returned cover the words of the text in order.
ChunksCoverText ==
    ck_pc = "returned" =>
        /\ total_words = 0 <=> para_chunks = <<>>
        /\ \A i \in 1..Len(para_chunks) :
             /\ para_chunks[i].from < para_chunks[i].to
             /\ para_chunks[i].to - para_chunks[i].from <= MAX_WORDS_PER_CHUNK
             /\ i > 1 => para_chunks[i].from
                            = para_chunks[i - 1].to - WORD_OVERLAP
             /\ i > 1 => para_chunks[i].to > para_chunks[i - 1].to
        /\ para_chunks # <<>> =>
             /\ para_chunks[1].from = 0
             /\ para_chunks[Len(para_chunks)].to = total_words
        /\ \A w \in 1..total_words :
             \E i \in 1..Len(para_chunks) :
                 para_chunks[i].from < w /\ w <= para_chunks[i].to

\* C30: for every word sequence chunk_text_into_paragraphs terminates, and
\* it returns chunks of at most MAX_WORDS_PER_CHUNK words that cover every
\* word in order: the first starts at the first word, each later one starts
\* exactly WORD_OVERLAP words before the end of the one before it, the last
\* ends at the last word, and an empty text gives no chunk.
C30_TerminatesAndCovers == []ChunksCoverText /\ <>(ck_pc = "returned")

\* A text of 560 words has been cut into three chunks, the last one of 60
\* words.
C30_Witness ==
    /\ ck_pc = "returned"
    /\ total_words = 560
    /\ Len(para_chunks) = 3
    /\ para_chunks[3] = [from |-> 500, to |-> 560]

====
